---- MODULE Spec2Model ----
(***************************************************************************)
(* Model of the volumetric reconstruction engine (src/experimental):       *)
(* DenseVoxelGrid, SparseVoxelGrid, SDFBuilder (generate_sdf, smooth_min,   *)
(* extract_surface, build) and SDFOptions; of the file list sorter of the   *)
(* print selection panel, PrintSelectFileSorter (src/src/ui); of the        *)
(* CapabilityMatrix of the pre-print options; of the XmlHotReloader and its *)
(* polling thread; and of GeometryBudgetManager::calculate_budget.          *)
(*                                                                         *)
(* Numbers.  World positions are integers in units of 0.01 mm; distance    *)
(* values (the floats stored in a grid, radii, the iso value) are integers  *)
(* in units of 0.0001 mm, so that the epsilon 0.0001f of the interpolation  *)
(* is 1 (0.21 mm = 2100, 10.0 mm = 100000).  Arithmetic is exact; where the *)
(* code divides, the model keeps numerator and denominator or rounds as     *)
(* stated at the definition.  Float NaN/Inf are not modelled.               *)
(***************************************************************************)
EXTENDS Integers, Sequences, FiniteSets, TLC

VARIABLES grid, sparse, mesh, opts, ret, fault, nwrites, stats_, history, sorter, files,
          capabilities_, reloader, disk, heap

vars == <<grid, sparse, mesh, opts, ret, fault, nwrites, stats_, history, sorter, files,
          capabilities_, reloader, disk, heap>>

(***************************************************************************)
(* Bounds of the model                                                     *)
(***************************************************************************)
\* resolution of the grid the grid-level operations are exercised on
GridRes == 2
\* number of set()/fill() calls explored on one grid
MaxWrites == 2

(***************************************************************************)
(* Program constants                                                       *)
(***************************************************************************)
\* std::numeric_limits<float>::max(), the "far outside" sentinel; the model
\* uses a number larger than every distance that occurs in it
FLT_MAX == 10000000
\* SparseVoxelGrid keeps a dense value only if it is < 10.0f
SPARSE_KEEP_BELOW == 100000

(***************************************************************************)
(* Helpers: <algorithm>, <cmath>, glm                                      *)
(***************************************************************************)
std_min(a, b) == IF b < a THEN b ELSE a

std_max(a, b) == IF a < b THEN b ELSE a

std_abs(a) == IF a < 0 THEN -a ELSE a

std_clamp(v, lo, hi) == IF v < lo THEN lo ELSE IF hi < v THEN hi ELSE v

\* std::floor(n / d) for d > 0
floor_div(n, d) == IF n >= 0 THEN n \div d ELSE -((-n + d - 1) \div d)

\* the update of one entry of a sparse representation of an array
Upd(f, i, v) == [j \in (DOMAIN f) \cup {i} |-> IF j = i THEN v ELSE f[j]]

AABB_size(b) == <<b.max[1] - b.min[1], b.max[2] - b.min[2], b.max[3] - b.min[3]>>

(***************************************************************************)
(* DenseVoxelGrid.  data_ (resolution^3 floats) is represented by the value *)
(* the whole vector was last filled with (fillv) and the entries written   *)
(* since (data: flat index -> value).                                      *)
(***************************************************************************)
\* the constructor: voxel size from the largest axis, every cell "far outside"
DenseVoxelGrid(resolution, bounds) ==
    LET size == AABB_size(bounds)
        max_dim == std_max(std_max(size[1], size[2]), size[3])
    IN [resolution |-> resolution, bounds |-> bounds,
        voxel_size |-> max_dim \div (resolution - 1),
        fillv |-> FLT_MAX, data |-> <<>>]

data_size(g) == g.resolution * g.resolution * g.resolution

data_at(g, i) == IF i \in DOMAIN g.data THEN g.data[i] ELSE g.fillv

index(g, x, y, z) == z * g.resolution * g.resolution + y * g.resolution + x

\* a plausible slip: the lower bound of x is not checked
in_bounds_no_lower_x(g, x, y, z) ==
    /\ x < g.resolution
    /\ y >= 0 /\ y < g.resolution
    /\ z >= 0 /\ z < g.resolution

in_bounds(g, x, y, z) ==
    /\ x >= 0 /\ x < g.resolution
    /\ y >= 0 /\ y < g.resolution
    /\ z >= 0 /\ z < g.resolution

\* data_[index(x,y,z)] outside the vector is undefined behaviour: the
\* operations below report it, and the actions record it in fault
bad_access(g, x, y, z) ==
    in_bounds(g, x, y, z) /\ index(g, x, y, z) \notin 0..(data_size(g) - 1)

get(g, x, y, z) ==
    IF ~in_bounds(g, x, y, z) THEN FLT_MAX ELSE data_at(g, index(g, x, y, z))

set(g, x, y, z, value) ==
    IF in_bounds(g, x, y, z)
    THEN [g EXCEPT !.data = Upd(@, index(g, x, y, z), value)]
    ELSE g

fill(g, value) == [g EXCEPT !.fillv = value, !.data = <<>>]

memory_usage(g) == data_size(g) * 4

\* one axis of sample(): floor, fraction (numerator over voxel_size), and the
\* two lattice coordinates after the clamps of lines 64-69
sample_axis(g, p, a) ==
    LET n == p[a] - g.bounds.min[a]
        f == floor_div(n, g.voxel_size)
    IN [i0 |-> std_max(0, f),
        i1 |-> std_min(f + 1, g.resolution - 1),
        fr |-> n - f * g.voxel_size]

\* the 8 corners in the order v000 v100 v010 v110 v001 v101 v011 v111
sample_corners(ax, ay, az) ==
    << <<ax.i0, ay.i0, az.i0>>, <<ax.i1, ay.i0, az.i0>>,
       <<ax.i0, ay.i1, az.i0>>, <<ax.i1, ay.i1, az.i0>>,
       <<ax.i0, ay.i0, az.i1>>, <<ax.i1, ay.i0, az.i1>>,
       <<ax.i0, ay.i1, az.i1>>, <<ax.i1, ay.i1, az.i1>> >>

\* trilinear interpolation of 8 values v with fractions fx/vs, fy/vs, fz/vs;
\* the result is the exact numerator over vs^3
trilinear(v, fx, fy, fz, vs) ==
    LET v00 == v[1] * (vs - fx) + v[2] * fx
        v10 == v[3] * (vs - fx) + v[4] * fx
        v01 == v[5] * (vs - fx) + v[6] * fx
        v11 == v[7] * (vs - fx) + v[8] * fx
        v0 == v00 * (vs - fy) + v10 * fy
        v1 == v01 * (vs - fy) + v11 * fy
    IN v0 * (vs - fz) + v1 * fz

\* DenseVoxelGrid::sample: the cells read and the interpolated value
sample(g, pos) ==
    LET ax == sample_axis(g, pos, 1)
        ay == sample_axis(g, pos, 2)
        az == sample_axis(g, pos, 3)
        cs == sample_corners(ax, ay, az)
        v == [i \in 1..8 |-> get(g, cs[i][1], cs[i][2], cs[i][3])]
    IN [reads |-> cs, weights |-> <<ax.fr, ay.fr, az.fr>>,
        num |-> trilinear(v, ax.fr, ay.fr, az.fr, g.voxel_size),
        den |-> g.voxel_size * g.voxel_size * g.voxel_size]

(***************************************************************************)
(* SparseVoxelGrid.  The NanoVDB tree is represented by what its accessor  *)
(* returns: the value set for a coordinate, the background value elsewhere *)
(***************************************************************************)
\* a plausible slip: the band test written as <=
sparse_keeps_le(value) == value <= SPARSE_KEEP_BELOW

\* the test of the conversion loop: only values near or inside the surface
sparse_keeps(value) == value < SPARSE_KEEP_BELOW

NullStorage == [live |-> FALSE, background |-> FLT_MAX, tree |-> <<>>]

NoSparse ==
    [constructed |-> FALSE, resolution |-> 0, bounds |-> [min |-> <<0, 0, 0>>, max |-> <<0, 0, 0>>],
     voxel_size |-> 0, nanovdb_grid |-> NullStorage, dense_equivalent |-> 0]

\* the converting constructor: walks every dense cell, inserts the kept ones
SparseVoxelGrid(dense_grid) ==
    LET r == dense_grid.resolution
        kept == {c \in (0..(r - 1)) \X (0..(r - 1)) \X (0..(r - 1)) :
                    sparse_keeps(get(dense_grid, c[1], c[2], c[3]))}
    IN [constructed |-> TRUE, resolution |-> r, bounds |-> dense_grid.bounds,
        voxel_size |-> dense_grid.voxel_size,
        nanovdb_grid |-> [live |-> TRUE, background |-> FLT_MAX,
                          tree |-> [c \in kept |-> get(dense_grid, c[1], c[2], c[3])]],
        dense_equivalent |-> memory_usage(dense_grid)]

\* accessor.getValue(Coord): the stored value or the background
accessor_getValue(storage, c) ==
    IF c \in DOMAIN storage.tree THEN storage.tree[c] ELSE storage.background

sparse_get(s, x, y, z) ==
    IF ~s.nanovdb_grid.live THEN FLT_MAX ELSE accessor_getValue(s.nanovdb_grid, <<x, y, z>>)

\* SparseVoxelGrid::world_to_voxel: floor, clamped to [0, resolution-1]
sparse_world_to_voxel(s, pos) ==
    [a \in 1..3 |->
        std_clamp(floor_div(pos[a] - s.bounds.min[a], s.voxel_size), 0, s.resolution - 1)]

\* SparseVoxelGrid::sample: the cells read, the fractions and the value
sparse_sample(s, pos) ==
    IF ~s.nanovdb_grid.live
    THEN [reads |-> <<>>, weights |-> <<0, 0, 0>>, num |-> FLT_MAX, den |-> 1]
    ELSE
    LET voxel == sparse_world_to_voxel(s, pos)
        vs == s.voxel_size
        frac == [a \in 1..3 |-> (pos[a] - s.bounds.min[a]) - voxel[a] * vs]
        x == [i0 |-> voxel[1], i1 |-> voxel[1] + 1]
        y == [i0 |-> voxel[2], i1 |-> voxel[2] + 1]
        z == [i0 |-> voxel[3], i1 |-> voxel[3] + 1]
        cs == sample_corners(x, y, z)
        v == [i \in 1..8 |-> accessor_getValue(s.nanovdb_grid, cs[i])]
    IN [reads |-> cs, weights |-> <<frac[1], frac[2], frac[3]>>,
        num |-> trilinear(v, frac[1], frac[2], frac[3], vs), den |-> vs * vs * vs]

(***************************************************************************)
(* Specification SpecGrid: the grid-level operations on one small grid     *)
(***************************************************************************)
\* the bounding box of the grid under test: voxel size 2, so that positions
\* fall on and between lattice points
TestBounds ==
    [min |-> <<10, 10, 10>>,
     max |-> <<10 + 2 * (GridRes - 1), 10 + 2 * (GridRes - 1), 10 + 2 * (GridRes - 1)>>]

\* coordinates handed to get/set: the 8 corner cells of the grid, one step
\* outside on each side of each axis, and coordinates whose flat index would
\* alias another cell or leave the vector
TestCoords ==
    LET r == GridRes
    IN ({0, r - 1} \X {0, r - 1} \X {0, r - 1}) \cup
       { <<-1, 0, 0>>, <<r, 0, 0>>, <<0, -1, r - 1>>, <<0, r, 0>>, <<r - 1, 0, -1>>,
         <<0, 0, r>>, <<-1, 1, 0>>, <<r, r - 1, 0>>, <<-1, -1, -1>>, <<r, r, r>> }

\* values written by set: inside the solid, and exactly 10.0
TestValues == {-5000, 100000}

\* value written by fill: just below 10.0
FillValues == {99999}

\* world positions handed to sample, per axis: two voxels below the grid, a
\* lattice point and a midpoint inside, the maximum face, two voxels above
TestPositions ==
    LET lo == TestBounds.min[1]
        hi == TestBounds.max[1]
    IN {lo - 4, lo + 1, hi, hi + 4}

\* world positions inside the bounds, per axis
InsidePositions ==
    LET lo == TestBounds.min[1]
        hi == TestBounds.max[1]
    IN {lo, lo + 1, hi}

NoMesh == [vertices |-> <<>>, normals |-> <<>>, indices |-> <<>>]

DefaultOptions ==
    [grid_resolution |-> 256, smoothing_radius |-> 5000, segment_radius_mm |-> 2100,
     iso_value |-> 0, max_z_height |-> FLT_MAX]

\* the sorter as constructed (ui_print_select_file_sorter.h, lines 35-36)
PrintSelectFileSorter ==
    [current_column_ |-> "MODIFIED", current_direction_ |-> "DESCENDING"]

InitGrid ==
    /\ grid = DenseVoxelGrid(GridRes, TestBounds)
    /\ sparse = NoSparse
    /\ mesh = NoMesh
    /\ opts = DefaultOptions
    /\ ret = [op |-> "none"]
    /\ fault = FALSE
    /\ nwrites = 0
    /\ stats_ = <<>>
    /\ history = <<>>
    /\ sorter = PrintSelectFileSorter
    /\ files = <<>>
    /\ capabilities_ = <<>>
    /\ reloader = <<>>
    /\ disk = <<>>
    /\ heap = <<>>

\* get and sample are const: a run ends with the query it makes
Queried == ret.op \in {"get", "sample", "sparse_get", "compare_sample"}

GridSet(x, y, z, value) ==
    /\ ~Queried
    /\ ~sparse.constructed
    /\ nwrites < MaxWrites
    /\ grid' = set(grid, x, y, z, value)
    /\ fault' = (fault \/ bad_access(grid, x, y, z))
    /\ ret' = [op |-> "set", at |-> <<x, y, z>>, before |-> grid]
    /\ nwrites' = nwrites + 1
    /\ UNCHANGED <<sparse, mesh, opts, stats_, history, sorter, files, capabilities_, reloader, disk, heap>>

GridFill(value) ==
    /\ ~Queried
    /\ ~sparse.constructed
    /\ nwrites < MaxWrites
    /\ grid' = fill(grid, value)
    /\ ret' = [op |-> "fill", value |-> value]
    /\ nwrites' = nwrites + 1
    /\ UNCHANGED <<sparse, mesh, opts, fault, stats_, history, sorter, files, capabilities_, reloader, disk, heap>>

GridGet(x, y, z) ==
    /\ ~Queried
    /\ ~sparse.constructed
    /\ ret' = [op |-> "get", at |-> <<x, y, z>>, value |-> get(grid, x, y, z)]
    /\ fault' = (fault \/ bad_access(grid, x, y, z))
    /\ UNCHANGED <<grid, sparse, mesh, opts, nwrites, stats_, history, sorter, files, capabilities_, reloader, disk, heap>>

GridSample(pos) ==
    LET r == sample(grid, pos)
    IN /\ ~Queried
       /\ ~sparse.constructed
       /\ ret' = [op |-> "sample", pos |-> pos, reads |-> r.reads,
                  num |-> r.num, den |-> r.den]
       /\ fault' = (fault \/ \E i \in 1..8 :
                        bad_access(grid, r.reads[i][1], r.reads[i][2], r.reads[i][3]))
       /\ UNCHANGED <<grid, sparse, mesh, opts, nwrites, stats_, history, sorter, files, capabilities_, reloader, disk, heap>>

SparseConstruct ==
    /\ ~Queried
    /\ ~sparse.constructed
    /\ sparse' = SparseVoxelGrid(grid)
    /\ ret' = [op |-> "sparse_construct"]
    /\ UNCHANGED <<grid, mesh, opts, fault, nwrites, stats_, history, sorter, files, capabilities_, reloader, disk, heap>>

SparseGet(x, y, z) ==
    /\ ~Queried
    /\ sparse.constructed
    /\ ret' = [op |-> "sparse_get", at |-> <<x, y, z>>, value |-> sparse_get(sparse, x, y, z)]
    /\ UNCHANGED <<grid, sparse, mesh, opts, fault, nwrites, stats_, history, sorter, files, capabilities_, reloader, disk, heap>>

\* the validation loop of test_sparse_grid.cpp: both grids sampled at one position
CompareSample(pos) ==
    /\ ~Queried
    /\ sparse.constructed
    /\ ret' = [op |-> "compare_sample", pos |-> pos,
               dense |-> sample(grid, pos), sparse |-> sparse_sample(sparse, pos)]
    /\ UNCHANGED <<grid, sparse, mesh, opts, fault, nwrites, stats_, history, sorter, files, capabilities_, reloader, disk, heap>>

NextGrid ==
    \/ \E c \in TestCoords, v \in TestValues : GridSet(c[1], c[2], c[3], v)
    \/ \E v \in FillValues : GridFill(v)
    \/ \E c \in TestCoords : GridGet(c[1], c[2], c[3])
    \/ \E x, y, z \in TestPositions : GridSample(<<x, y, z>>)
    \/ SparseConstruct
    \/ \E c \in TestCoords : SparseGet(c[1], c[2], c[3])
    \/ \E x, y, z \in InsidePositions : CompareSample(<<x, y, z>>)

SpecGrid == InitGrid /\ [][NextGrid]_vars

(***************************************************************************)
(* Claims on the grids                                                     *)
(***************************************************************************)
\* "inside [0,resolution) on every axis", stated without the code's test
InRange(c) == \A a \in 1..3 : 0 <= c[a] /\ c[a] < GridRes

\* C5: for coordinates with an axis outside [0,resolution), get returns the
\* far-outside sentinel, set changes no cell, and no call touches memory
\* outside the vector, whatever set/fill calls came before.
C5_OutOfRangeGetSet ==
    /\ ~fault
    /\ (ret.op = "get" /\ ~InRange(ret.at)) => ret.value = FLT_MAX
    /\ (ret.op = "set" /\ ~InRange(ret.at)) =>
          \A i \in 0..(data_size(grid) - 1) : data_at(grid, i) = data_at(ret.before, i)

\* C5 witness: an out-of-range get and set after an earlier write
C5_Witness ==
    /\ ret.op \in {"get", "set"}
    /\ ~InRange(ret.at)
    /\ ret.at[1] = -1
    /\ grid.data # <<>>

\* C6 as claimed: every cell sample reads is inside [0,resolution)
C6_SampleReadsInRange ==
    ret.op = "sample" => \A i \in 1..8 : InRange(ret.reads[i])

\* C7: sparse get equals dense get where the dense value is in range and
\* below 10.0, and the background sentinel everywhere else.
C7_SparseGetMatchesDense ==
    ret.op = "sparse_get" =>
        ret.value = (IF InRange(ret.at) /\ get(grid, ret.at[1], ret.at[2], ret.at[3]) < 100000
                     THEN get(grid, ret.at[1], ret.at[2], ret.at[3])
                     ELSE FLT_MAX)

\* C7 witness: an inserted cell, and a cell holding exactly 10.0 that is not
C7_Witness ==
    /\ ret.op = "sparse_get"
    /\ InRange(ret.at)
    /\ ret.value = FLT_MAX
    /\ get(grid, ret.at[1], ret.at[2], ret.at[3]) = 100000
    /\ \E c \in DOMAIN sparse.nanovdb_grid.tree : sparse.nanovdb_grid.tree[c] = 99999

InsideBounds(pos) ==
    \A a \in 1..3 : TestBounds.min[a] <= pos[a] /\ pos[a] <= TestBounds.max[a]

\* the case of C8: a position inside the bounds all of whose surrounding
\* lattice cells (the ones the dense interpolation uses) hold values < 10.0
C8_Case ==
    /\ ret.op = "compare_sample"
    /\ InsideBounds(ret.pos)
    /\ \A i \in 1..8 : get(grid, ret.dense.reads[i][1], ret.dense.reads[i][2],
                           ret.dense.reads[i][3]) < 100000

\* C8 as claimed: there both samples read the same 8 cells with the same
\* weights and return the same value within 0.01
C8_SameCellsSameValue ==
    C8_Case =>
        /\ ret.sparse.reads = ret.dense.reads
        /\ ret.sparse.weights = ret.dense.weights
        /\ std_abs(ret.sparse.num - ret.dense.num) <= 100 * ret.dense.den

\* the value half of C8 alone (holds in exact arithmetic: the out-of-range
\* cell the sparse sample reads on the maximum face has weight 0)
C8_SameValueOnly ==
    C8_Case => std_abs(ret.sparse.num - ret.dense.num) <= 100 * ret.dense.den

(***************************************************************************)
(* SDFBuilder::smooth_min and SDFOptions::validate                         *)
(***************************************************************************)
\* the largest |a|, |b| and the largest k smooth_min is exercised with
MaxSminValue == 6

MaxSminK == 6

\* a plausible slip: h is not cut off at 0
smooth_min_h_unclamped(a, b, k) == k - std_abs(a - b)

\* k*h of line 212: h = max(k - |a-b|, 0) / k
smooth_min_h(a, b, k) == std_max(k - std_abs(a - b), 0)

\* min(a,b) - h*h*k*0.25, exactly: the minimum and the blend term hk^2/(4k)
smooth_min_exact(a, b, k) ==
    LET hk == smooth_min_h(a, b, k)
    IN [min |-> std_min(a, b), sub_num |-> hk * hk, sub_den |-> 4 * k]

\* the number nearest to n/d (d > 0, n >= 0), as a float result is rounded
round_div(n, d) == (2 * n + d) \div (2 * d)

\* the float smooth_min returns: the exact value rounded to the unit
smooth_min(a, b, k) ==
    LET e == smooth_min_exact(a, b, k)
    IN e.min - round_div(e.sub_num, e.sub_den)

InitSmoothMin ==
    /\ grid = DenseVoxelGrid(GridRes, TestBounds)
    /\ sparse = NoSparse
    /\ mesh = NoMesh
    /\ opts = DefaultOptions
    /\ ret = [op |-> "none"]
    /\ fault = FALSE
    /\ nwrites = 0
    /\ stats_ = <<>>
    /\ history = <<>>
    /\ sorter = PrintSelectFileSorter
    /\ files = <<>>
    /\ capabilities_ = <<>>
    /\ reloader = <<>>
    /\ disk = <<>>
    /\ heap = <<>>

SmoothMin(a, b, k) ==
    /\ ret' = [op |-> "smooth_min", a |-> a, b |-> b, k |-> k,
               exact |-> smooth_min_exact(a, b, k), value |-> smooth_min(a, b, k)]
    /\ UNCHANGED <<grid, sparse, mesh, opts, fault, nwrites, stats_, history, sorter, files, capabilities_, reloader, disk, heap>>

SminValues == ((-MaxSminValue)..MaxSminValue) \cup {FLT_MAX}

NextSmoothMin == \E a, b \in SminValues, k \in 1..MaxSminK : SmoothMin(a, b, k)

SpecSmoothMin == InitSmoothMin /\ [][NextSmoothMin]_vars

\* the minimum of a and b, stated without the code's std::min
MinOf(a, b) == IF a <= b THEN a ELSE b

\* C9: for every k > 0, smooth_min(a,b,k) <= min(a,b); it is never below
\* min(a,b) - k/4; and it equals min(a,b) whenever |a-b| >= k.  With the
\* result min - n/d (n >= 0, d = 4k): n/d >= 0, n/d <= k/4, and n = 0 when
\* |a-b| >= k; the rounded float result obeys the same upper bound.
C9_SmoothMinBounds ==
    ret.op = "smooth_min" =>
        /\ ret.exact.min = MinOf(ret.a, ret.b)
        /\ ret.exact.sub_den > 0
        /\ ret.exact.sub_num >= 0
        /\ 4 * ret.exact.sub_num <= ret.k * ret.exact.sub_den
        /\ ret.value <= MinOf(ret.a, ret.b)
        /\ ((ret.a - ret.b >= ret.k \/ ret.b - ret.a >= ret.k) =>
               /\ ret.exact.sub_num = 0
               /\ ret.value = MinOf(ret.a, ret.b))

\* C9 witness: a genuine blend (|a-b| < k, result strictly below the minimum)
\* has been computed
C9_Witness ==
    /\ ret.op = "smooth_min"
    /\ ret.a - ret.b < ret.k /\ ret.b - ret.a < ret.k
    /\ ret.a # ret.b
    /\ ret.exact.sub_num > 0
    /\ ret.value < MinOf(ret.a, ret.b)

\* SDFOptions::validate
MinResolution == 64

MaxResolution == 1024

\* a plausible slip: min and max exchanged for the resolution
validate_swapped(o) ==
    [o EXCEPT !.grid_resolution = std_min(MinResolution, std_max(MaxResolution, @)),
              !.smoothing_radius = std_max(1000, std_min(20000, @)),
              !.segment_radius_mm = std_max(500, std_min(10000, @))]

validate(o) ==
    [o EXCEPT !.grid_resolution = std_max(MinResolution, std_min(MaxResolution, @)),
              !.smoothing_radius = std_max(1000, std_min(20000, @)),
              !.segment_radius_mm = std_max(500, std_min(10000, @))]

(***************************************************************************)
(* SDFBuilder::generate_sdf.  A feature_type is a sequence of characters.  *)
(***************************************************************************)
\* haystack.find(needle) != std::string::npos
str_contains(hay, needle) ==
    \E i \in 1..(Len(hay) - Len(needle) + 1) : SubSeq(hay, i, i + Len(needle) - 1) = needle

\* the substrings tested at lines 253-262
ShellKeywords ==
    { <<"w", "a", "l", "l">>,
      <<"W", "a", "l", "l">>,
      <<"p", "e", "r", "i", "m", "e", "t", "e", "r">>,
      <<"P", "e", "r", "i", "m", "e", "t", "e", "r">>,
      <<"s", "u", "r", "f", "a", "c", "e">>,
      <<"S", "u", "r", "f", "a", "c", "e">>,
      <<"s", "k", "i", "n">>,
      <<"S", "k", "i", "n">>,
      <<"b", "r", "i", "d", "g", "e">>,
      <<"B", "r", "i", "d", "g", "e">> }

\* a plausible slip: one spelling ("Skin") forgotten
is_shell_feature_no_Skin(feature_type) ==
    \E k \in ShellKeywords \ {<<"S", "k", "i", "n">>} : str_contains(feature_type, k)

\* a plausible slip: the label test left out
is_shell_feature_unfiltered(feature_type) == TRUE

is_shell_feature(feature_type) == \E k \in ShellKeywords : str_contains(feature_type, k)

\* floor(sqrt(n)), by bisection on [lo, hi]
RECURSIVE isqrt_between(_, _, _)
isqrt_between(n, lo, hi) ==
    IF lo >= hi THEN lo
    ELSE LET mid == (lo + hi + 1) \div 2
         IN IF mid * mid <= n THEN isqrt_between(n, mid, hi) ELSE isqrt_between(n, lo, mid - 1)

\* glm::length / glm::distance of a vector whose squared length is num/den
\* (position units^2), as a distance value, rounded down to 0.001 mm (to
\* 0.01 mm beyond 44 mm)
length_value(num, den) ==
    LET q == num \div den
    IN IF q <= 20000000
       THEN 10 * isqrt_between(100 * q, 0, 46340)
       ELSE 100 * isqrt_between(q, 0, 46340)

vec_sub(a, b) == <<a[1] - b[1], a[2] - b[2], a[3] - b[3]>>

vec_dot(a, b) == a[1] * b[1] + a[2] * b[2] + a[3] * b[3]

\* capsule_sdf: distance to the segment's axis minus the radius.  With
\* t = dot/len^2 clamped to [0,1], |point - closest|^2 is |to_point|^2 at t = 0,
\* |point - end|^2 at t = 1 and |to_point|^2 - dot^2/len^2 in between.
capsule_sdf(point, start, end, radius) ==
    LET segment == vec_sub(end, start)
        len2 == vec_dot(segment, segment)
        to_point == vec_sub(point, start)
        d == vec_dot(to_point, segment)
    IN IF len2 = 0
       THEN length_value(vec_dot(to_point, to_point), 1) - radius
       ELSE IF d <= 0
       THEN length_value(vec_dot(to_point, to_point), 1) - radius
       ELSE IF d >= len2
       THEN length_value(vec_dot(vec_sub(point, end), vec_sub(point, end)), 1) - radius
       ELSE length_value(vec_dot(to_point, to_point) * len2 - d * d, len2) - radius

\* std::round(n / d) for d > 0: halves away from zero
std_round(n, d) == IF n >= 0 THEN (2 * n + d) \div (2 * d) ELSE -((-2 * n + d) \div (2 * d))

\* DenseVoxelGrid::world_to_voxel of the position pos100 / 100
world_to_voxel(g, pos100) ==
    [a \in 1..3 |-> std_round(pos100[a] - 100 * g.bounds.min[a], 100 * g.voxel_size)]

voxel_to_world(g, v) == [a \in 1..3 |-> g.bounds.min[a] + v[a] * g.voxel_size]

\* the voxel of a flat index
voxel_of(g, i) ==
    <<i % g.resolution, (i \div g.resolution) % g.resolution,
      i \div (g.resolution * g.resolution)>>

\* an influence box that is the whole grid
influence_box_whole_grid(g, segment, segment_radius, smoothing_radius) ==
    (0..(g.resolution - 1)) \X (0..(g.resolution - 1)) \X (0..(g.resolution - 1))

\* lines 223-224 and 273-283: the voxels of the segment's influence box,
\* rounded to voxel indices and clamped to the grid
influence_box(g, segment, segment_radius, smoothing_radius) ==
    LET influence == segment_radius + smoothing_radius + 100 * g.voxel_size
        seg_min == [a \in 1..3 |-> 100 * std_min(segment.start[a], segment.end[a]) - influence]
        seg_max == [a \in 1..3 |-> 100 * std_max(segment.start[a], segment.end[a]) + influence]
        vmin == world_to_voxel(g, seg_min)
        vmax == world_to_voxel(g, seg_max)
        lo == [a \in 1..3 |-> std_max(vmin[a], 0)]
        hi == [a \in 1..3 |-> std_min(vmax[a], g.resolution - 1)]
    IN (lo[1]..hi[1]) \X (lo[2]..hi[2]) \X (lo[3]..hi[3])

\* a rasterization that stores the segment's distance, not the blend
rasterize_segment_overwrite(g, segment, segment_radius, smoothing_radius) ==
    LET hit == {c \in influence_box(g, segment, segment_radius, smoothing_radius) :
                   in_bounds(g, c[1], c[2], c[3])}
        written == {index(g, c[1], c[2], c[3]) : c \in hit}
    IN [g EXCEPT !.data = [i \in (DOMAIN g.data) \cup written |->
                              IF i \in written
                              THEN capsule_sdf(voxel_to_world(g, voxel_of(g, i)), segment.start,
                                               segment.end, segment_radius)
                              ELSE g.data[i]]]

\* lines 273-300 for one segment: the voxels of the clamped influence box,
\* each blended once with the segment's distance
rasterize_segment(g, segment, segment_radius, smoothing_radius) ==
    LET hit == {c \in influence_box(g, segment, segment_radius, smoothing_radius) :
                   in_bounds(g, c[1], c[2], c[3])}
        blended(c) ==
            smooth_min(get(g, c[1], c[2], c[3]),
                       capsule_sdf(voxel_to_world(g, c), segment.start, segment.end,
                                   segment_radius),
                       smoothing_radius)
        written == {index(g, c[1], c[2], c[3]) : c \in hit}
    IN [g EXCEPT !.data = [i \in (DOMAIN g.data) \cup written |->
                              IF i \in written THEN blended(voxel_of(g, i)) ELSE g.data[i]]]

\* the loop of lines 233-306 from segment i on; st carries the grid, the two
\* counters and the positions of the segments that reached the rasterization
RECURSIVE generate_sdf_from(_, _, _, _, _)
generate_sdf_from(st, segments, i, segment_radius, smoothing_radius) ==
    IF i > Len(segments) THEN st
    ELSE LET segment == segments[i]
             next ==
                IF ~segment.is_extrusion THEN st
                ELSE IF segment.feature_type # <<>> /\ ~is_shell_feature(segment.feature_type)
                THEN [st EXCEPT !.segments_filtered = @ + 1]
                ELSE [st EXCEPT
                        !.grid = rasterize_segment(@, segment, segment_radius, smoothing_radius),
                        !.segments_processed = @ + 1,
                        !.rasterized = Append(@, i)]
         IN generate_sdf_from(next, segments, i + 1, segment_radius, smoothing_radius)

generate_sdf(g, segments, segment_radius, smoothing_radius) ==
    generate_sdf_from([grid |-> g, segments_processed |-> 0, segments_filtered |-> 0,
                       rasterized |-> <<>>],
                      segments, 1, segment_radius, smoothing_radius)

(***************************************************************************)
(* Specification SpecSdf: generate_sdf on a fresh grid                     *)
(***************************************************************************)
\* the number of segments of a toolpath
MaxSegs == 2

\* the grid of the rasterization runs: voxel size 0.2 mm
SdfBounds == [min |-> <<0, 0, 0>>, max |-> <<20 * GridRes, 20 * GridRes, 20 * GridRes>>]

SdfGrid == DenseVoxelGrid(GridRes + 1, SdfBounds)

\* feature labels of slicers, matching and not matching
FeatureSamples ==
    { <<>>,
      <<"O", "u", "t", "e", "r", " ", "w", "a", "l", "l">>,
      <<"W", "a", "l", "l">>,
      <<"E", "x", "t", "e", "r", "n", "a", "l", " ", "p", "e", "r", "i", "m", "e", "t", "e", "r">>,
      <<"P", "e", "r", "i", "m", "e", "t", "e", "r">>,
      <<"T", "o", "p", " ", "s", "u", "r", "f", "a", "c", "e">>,
      <<"S", "u", "r", "f", "a", "c", "e">>,
      <<"s", "k", "i", "n">>,
      <<"S", "k", "i", "n">>,
      <<"O", "v", "e", "r", "h", "a", "n", "g", " ", "b", "r", "i", "d", "g", "e">>,
      <<"B", "r", "i", "d", "g", "e">>,
      <<"I", "n", "t", "e", "r", "n", "a", "l", " ", "i", "n", "f", "i", "l", "l">>,
      <<"S", "u", "p", "p", "o", "r", "t">>,
      <<"S", "K", "I", "N">>,
      <<"S", "h", "e", "l", "l">> }

Seg(start, end, is_extrusion, feature_type) ==
    [start |-> start, end |-> end, is_extrusion |-> is_extrusion, feature_type |-> feature_type]

\* extruding segments with every label, travel moves, and a zero-length one
SegmentSamples ==
    {Seg(<<5, 10, 10>>, <<25, 10, 10>>, TRUE, f) : f \in FeatureSamples} \cup
    { Seg(<<5, 10, 10>>, <<25, 10, 10>>, FALSE, <<>>),
      Seg(<<5, 10, 10>>, <<25, 10, 10>>, FALSE, <<"O", "u", "t", "e", "r", " ", "w", "a", "l", "l">>),
      Seg(<<20, 20, 20>>, <<20, 20, 20>>, TRUE, <<"O", "u", "t", "e", "r", " ", "w", "a", "l", "l">>) }

ToolpathSamples == UNION {[1..n -> SegmentSamples] : n \in 0..MaxSegs}

InitSdf ==
    /\ grid = SdfGrid
    /\ sparse = NoSparse
    /\ mesh = NoMesh
    /\ opts = DefaultOptions
    /\ ret = [op |-> "none"]
    /\ fault = FALSE
    /\ nwrites = 0
    /\ stats_ = <<>>
    /\ history = <<>>
    /\ sorter = PrintSelectFileSorter
    /\ files = <<>>
    /\ capabilities_ = <<>>
    /\ reloader = <<>>
    /\ disk = <<>>
    /\ heap = <<>>

\* generate_sdf is private: build calls it once, on the grid it just allocated
GenerateSdf(segments) ==
    /\ ret.op = "none"
    /\ \E r \in {generate_sdf(grid, segments, opts.segment_radius_mm, opts.smoothing_radius)} :
       /\ grid' = r.grid
       /\ ret' = [op |-> "generate_sdf", segments |-> segments, before |-> grid,
                  segments_processed |-> r.segments_processed,
                  segments_filtered |-> r.segments_filtered,
                  rasterized |-> r.rasterized]
       /\ UNCHANGED <<sparse, mesh, opts, fault, nwrites, stats_, history, sorter, files, capabilities_, reloader, disk, heap>>

NextSdf == \E segments \in ToolpathSamples : GenerateSdf(segments)

SpecSdf == InitSdf /\ [][NextSdf]_vars

(***************************************************************************)
(* Claims on the rasterizer                                                *)
(***************************************************************************)
UpperCase == <<"A", "B", "C", "D", "E", "F", "G", "H", "I", "J", "K", "L", "M", "N", "O", "P", "Q", "R", "S", "T", "U", "V", "W", "X", "Y", "Z">>

LowerCase == <<"a", "b", "c", "d", "e", "f", "g", "h", "i", "j", "k", "l", "m", "n", "o", "p", "q", "r", "s", "t", "u", "v", "w", "x", "y", "z">>

ToLower(c) ==
    IF \E i \in 1..26 : UpperCase[i] = c
    THEN LowerCase[CHOOSE i \in 1..26 : UpperCase[i] = c]
    ELSE c

LowerString(t) == [i \in 1..Len(t) |-> ToLower(t[i])]

\* "contains needle at some position", stated without the code's search
HasSubstring(hay, needle) ==
    \E i \in 0..Len(hay) :
        /\ i + Len(needle) <= Len(hay)
        /\ \A j \in 1..Len(needle) : hay[i + j] = needle[j]

\* the keywords of the claim, matched case-insensitively
ClaimedKeywords ==
    { <<"s", "h", "e", "l", "l">>,
      <<"p", "e", "r", "i", "m", "e", "t", "e", "r">>,
      <<"s", "u", "r", "f", "a", "c", "e">>,
      <<"s", "k", "i", "n">>,
      <<"b", "r", "i", "d", "g", "e">> }

ClaimedToRasterize(segment) ==
    /\ segment.is_extrusion
    /\ \/ segment.feature_type = <<>>
       \/ \E k \in ClaimedKeywords : HasSubstring(LowerString(segment.feature_type), k)

\* the spellings the rasterizer accepts, matched case-sensitively
AcceptedSpellings ==
    { <<"w", "a", "l", "l">>,
      <<"W", "a", "l", "l">>,
      <<"p", "e", "r", "i", "m", "e", "t", "e", "r">>,
      <<"P", "e", "r", "i", "m", "e", "t", "e", "r">>,
      <<"s", "u", "r", "f", "a", "c", "e">>,
      <<"S", "u", "r", "f", "a", "c", "e">>,
      <<"s", "k", "i", "n">>,
      <<"S", "k", "i", "n">>,
      <<"b", "r", "i", "d", "g", "e">>,
      <<"B", "r", "i", "d", "g", "e">> }

AmendedToRasterize(segment) ==
    /\ segment.is_extrusion
    /\ \/ segment.feature_type = <<>>
       \/ \E k \in AcceptedSpellings : HasSubstring(segment.feature_type, k)

GridUnchanged ==
    \A i \in 0..(data_size(grid) - 1) : data_at(grid, i) = data_at(ret.before, i)

\* C4 as claimed: a segment is rasterized iff it extrudes and its label is
\* empty or contains shell, perimeter, surface, skin or bridge in any case
C4_FilterAsClaimed ==
    ret.op = "generate_sdf" =>
        \A i \in 1..Len(ret.segments) :
            (\E j \in 1..Len(ret.rasterized) : ret.rasterized[j] = i)
                <=> ClaimedToRasterize(ret.segments[i])

\* C4 amended: a segment is rasterized iff it extrudes and its label is empty
\* or contains one of wall, perimeter, surface, skin, bridge spelled in lower
\* case or with a capital first letter (case-sensitive); if no segment of the
\* toolpath is, every voxel keeps its value, and a rasterized segment changes
\* the grid.
C4_FilterAmended ==
    ret.op = "generate_sdf" =>
        /\ \A i \in 1..Len(ret.segments) :
              (\E j \in 1..Len(ret.rasterized) : ret.rasterized[j] = i)
                  <=> AmendedToRasterize(ret.segments[i])
        /\ (\A i \in 1..Len(ret.segments) : ~AmendedToRasterize(ret.segments[i]))
              <=> GridUnchanged

\* C4 witness: a toolpath with a rasterized and a skipped extruding segment
C4_Witness ==
    /\ ret.op = "generate_sdf"
    /\ Len(ret.segments) = 2
    /\ ret.rasterized = <<2>>
    /\ ret.segments[1].is_extrusion
    /\ ~GridUnchanged

(***************************************************************************)
(* Marching cubes: the lookup tables of marching_cubes_tables.h (Paul      *)
(* Bourke's edgeTable and triTable), indexed from 0 in the code and from 1 *)
(* here.                                                                   *)
(***************************************************************************)
edge_table ==
    <<
      0, 265, 515, 778, 1030, 1295, 1541, 1804, 2060, 2309, 2575, 2822,
      3082, 3331, 3593, 3840, 400, 153, 915, 666, 1430, 1183, 1941, 1692,
      2460, 2197, 2975, 2710, 3482, 3219, 3993, 3728, 560, 825, 51, 314,
      1590, 1855, 1077, 1340, 2620, 2869, 2111, 2358, 3642, 3891, 3129, 3376,
      928, 681, 419, 170, 1958, 1711, 1445, 1196, 2988, 2725, 2479, 2214,
      4010, 3747, 3497, 3232, 1120, 1385, 1635, 1898, 102, 367, 613, 876,
      3180, 3429, 3695, 3942, 2154, 2403, 2665, 2912, 1520, 1273, 2035, 1786,
      502, 255, 1013, 764, 3580, 3317, 4095, 3830, 2554, 2291, 3065, 2800,
      1616, 1881, 1107, 1370, 598, 863, 85, 348, 3676, 3925, 3167, 3414,
      2650, 2899, 2137, 2384, 1984, 1737, 1475, 1226, 966, 719, 453, 204,
      4044, 3781, 3535, 3270, 3018, 2755, 2505, 2240, 2240, 2505, 2755, 3018,
      3270, 3535, 3781, 4044, 204, 453, 719, 966, 1226, 1475, 1737, 1984,
      2384, 2137, 2899, 2650, 3414, 3167, 3925, 3676, 348, 85, 863, 598,
      1370, 1107, 1881, 1616, 2800, 3065, 2291, 2554, 3830, 4095, 3317, 3580,
      764, 1013, 255, 502, 1786, 2035, 1273, 1520, 2912, 2665, 2403, 2154,
      3942, 3695, 3429, 3180, 876, 613, 367, 102, 1898, 1635, 1385, 1120,
      3232, 3497, 3747, 4010, 2214, 2479, 2725, 2988, 1196, 1445, 1711, 1958,
      170, 419, 681, 928, 3376, 3129, 3891, 3642, 2358, 2111, 2869, 2620,
      1340, 1077, 1855, 1590, 314, 51, 825, 560, 3728, 3993, 3219, 3482,
      2710, 2975, 2197, 2460, 1692, 1941, 1183, 1430, 666, 915, 153, 400,
      3840, 3593, 3331, 3082, 2822, 2575, 2309, 2060, 1804, 1541, 1295, 1030,
      778, 515, 265, 0
    >>

triangle_table ==
    <<
      <<-1, -1, -1, -1, -1, -1, -1, -1, -1, -1, -1, -1, -1, -1, -1, -1>>,
      <<0, 8, 3, -1, -1, -1, -1, -1, -1, -1, -1, -1, -1, -1, -1, -1>>,
      <<0, 1, 9, -1, -1, -1, -1, -1, -1, -1, -1, -1, -1, -1, -1, -1>>,
      <<1, 8, 3, 9, 8, 1, -1, -1, -1, -1, -1, -1, -1, -1, -1, -1>>,
      <<1, 2, 10, -1, -1, -1, -1, -1, -1, -1, -1, -1, -1, -1, -1, -1>>,
      <<0, 8, 3, 1, 2, 10, -1, -1, -1, -1, -1, -1, -1, -1, -1, -1>>,
      <<9, 2, 10, 0, 2, 9, -1, -1, -1, -1, -1, -1, -1, -1, -1, -1>>,
      <<2, 8, 3, 2, 10, 8, 10, 9, 8, -1, -1, -1, -1, -1, -1, -1>>,
      <<3, 11, 2, -1, -1, -1, -1, -1, -1, -1, -1, -1, -1, -1, -1, -1>>,
      <<0, 11, 2, 8, 11, 0, -1, -1, -1, -1, -1, -1, -1, -1, -1, -1>>,
      <<1, 9, 0, 2, 3, 11, -1, -1, -1, -1, -1, -1, -1, -1, -1, -1>>,
      <<1, 11, 2, 1, 9, 11, 9, 8, 11, -1, -1, -1, -1, -1, -1, -1>>,
      <<3, 10, 1, 11, 10, 3, -1, -1, -1, -1, -1, -1, -1, -1, -1, -1>>,
      <<0, 10, 1, 0, 8, 10, 8, 11, 10, -1, -1, -1, -1, -1, -1, -1>>,
      <<3, 9, 0, 3, 11, 9, 11, 10, 9, -1, -1, -1, -1, -1, -1, -1>>,
      <<9, 8, 10, 10, 8, 11, -1, -1, -1, -1, -1, -1, -1, -1, -1, -1>>,
      <<4, 7, 8, -1, -1, -1, -1, -1, -1, -1, -1, -1, -1, -1, -1, -1>>,
      <<4, 3, 0, 7, 3, 4, -1, -1, -1, -1, -1, -1, -1, -1, -1, -1>>,
      <<0, 1, 9, 8, 4, 7, -1, -1, -1, -1, -1, -1, -1, -1, -1, -1>>,
      <<4, 1, 9, 4, 7, 1, 7, 3, 1, -1, -1, -1, -1, -1, -1, -1>>,
      <<1, 2, 10, 8, 4, 7, -1, -1, -1, -1, -1, -1, -1, -1, -1, -1>>,
      <<3, 4, 7, 3, 0, 4, 1, 2, 10, -1, -1, -1, -1, -1, -1, -1>>,
      <<9, 2, 10, 9, 0, 2, 8, 4, 7, -1, -1, -1, -1, -1, -1, -1>>,
      <<2, 10, 9, 2, 9, 7, 2, 7, 3, 7, 9, 4, -1, -1, -1, -1>>,
      <<8, 4, 7, 3, 11, 2, -1, -1, -1, -1, -1, -1, -1, -1, -1, -1>>,
      <<11, 4, 7, 11, 2, 4, 2, 0, 4, -1, -1, -1, -1, -1, -1, -1>>,
      <<9, 0, 1, 8, 4, 7, 2, 3, 11, -1, -1, -1, -1, -1, -1, -1>>,
      <<4, 7, 11, 9, 4, 11, 9, 11, 2, 9, 2, 1, -1, -1, -1, -1>>,
      <<3, 10, 1, 3, 11, 10, 7, 8, 4, -1, -1, -1, -1, -1, -1, -1>>,
      <<1, 11, 10, 1, 4, 11, 1, 0, 4, 7, 11, 4, -1, -1, -1, -1>>,
      <<4, 7, 8, 9, 0, 11, 9, 11, 10, 11, 0, 3, -1, -1, -1, -1>>,
      <<4, 7, 11, 4, 11, 9, 9, 11, 10, -1, -1, -1, -1, -1, -1, -1>>,
      <<9, 5, 4, -1, -1, -1, -1, -1, -1, -1, -1, -1, -1, -1, -1, -1>>,
      <<9, 5, 4, 0, 8, 3, -1, -1, -1, -1, -1, -1, -1, -1, -1, -1>>,
      <<0, 5, 4, 1, 5, 0, -1, -1, -1, -1, -1, -1, -1, -1, -1, -1>>,
      <<8, 5, 4, 8, 3, 5, 3, 1, 5, -1, -1, -1, -1, -1, -1, -1>>,
      <<1, 2, 10, 9, 5, 4, -1, -1, -1, -1, -1, -1, -1, -1, -1, -1>>,
      <<3, 0, 8, 1, 2, 10, 4, 9, 5, -1, -1, -1, -1, -1, -1, -1>>,
      <<5, 2, 10, 5, 4, 2, 4, 0, 2, -1, -1, -1, -1, -1, -1, -1>>,
      <<2, 10, 5, 3, 2, 5, 3, 5, 4, 3, 4, 8, -1, -1, -1, -1>>,
      <<9, 5, 4, 2, 3, 11, -1, -1, -1, -1, -1, -1, -1, -1, -1, -1>>,
      <<0, 11, 2, 0, 8, 11, 4, 9, 5, -1, -1, -1, -1, -1, -1, -1>>,
      <<0, 5, 4, 0, 1, 5, 2, 3, 11, -1, -1, -1, -1, -1, -1, -1>>,
      <<2, 1, 5, 2, 5, 8, 2, 8, 11, 4, 8, 5, -1, -1, -1, -1>>,
      <<10, 3, 11, 10, 1, 3, 9, 5, 4, -1, -1, -1, -1, -1, -1, -1>>,
      <<4, 9, 5, 0, 8, 1, 8, 10, 1, 8, 11, 10, -1, -1, -1, -1>>,
      <<5, 4, 0, 5, 0, 11, 5, 11, 10, 11, 0, 3, -1, -1, -1, -1>>,
      <<5, 4, 8, 5, 8, 10, 10, 8, 11, -1, -1, -1, -1, -1, -1, -1>>,
      <<9, 7, 8, 5, 7, 9, -1, -1, -1, -1, -1, -1, -1, -1, -1, -1>>,
      <<9, 3, 0, 9, 5, 3, 5, 7, 3, -1, -1, -1, -1, -1, -1, -1>>,
      <<0, 7, 8, 0, 1, 7, 1, 5, 7, -1, -1, -1, -1, -1, -1, -1>>,
      <<1, 5, 3, 3, 5, 7, -1, -1, -1, -1, -1, -1, -1, -1, -1, -1>>,
      <<9, 7, 8, 9, 5, 7, 10, 1, 2, -1, -1, -1, -1, -1, -1, -1>>,
      <<10, 1, 2, 9, 5, 0, 5, 3, 0, 5, 7, 3, -1, -1, -1, -1>>,
      <<8, 0, 2, 8, 2, 5, 8, 5, 7, 10, 5, 2, -1, -1, -1, -1>>,
      <<2, 10, 5, 2, 5, 3, 3, 5, 7, -1, -1, -1, -1, -1, -1, -1>>,
      <<7, 9, 5, 7, 8, 9, 3, 11, 2, -1, -1, -1, -1, -1, -1, -1>>,
      <<9, 5, 7, 9, 7, 2, 9, 2, 0, 2, 7, 11, -1, -1, -1, -1>>,
      <<2, 3, 11, 0, 1, 8, 1, 7, 8, 1, 5, 7, -1, -1, -1, -1>>,
      <<11, 2, 1, 11, 1, 7, 7, 1, 5, -1, -1, -1, -1, -1, -1, -1>>,
      <<9, 5, 8, 8, 5, 7, 10, 1, 3, 10, 3, 11, -1, -1, -1, -1>>,
      <<5, 7, 0, 5, 0, 9, 7, 11, 0, 1, 0, 10, 11, 10, 0, -1>>,
      <<11, 10, 0, 11, 0, 3, 10, 5, 0, 8, 0, 7, 5, 7, 0, -1>>,
      <<11, 10, 5, 7, 11, 5, -1, -1, -1, -1, -1, -1, -1, -1, -1, -1>>,
      <<10, 6, 5, -1, -1, -1, -1, -1, -1, -1, -1, -1, -1, -1, -1, -1>>,
      <<0, 8, 3, 5, 10, 6, -1, -1, -1, -1, -1, -1, -1, -1, -1, -1>>,
      <<9, 0, 1, 5, 10, 6, -1, -1, -1, -1, -1, -1, -1, -1, -1, -1>>,
      <<1, 8, 3, 1, 9, 8, 5, 10, 6, -1, -1, -1, -1, -1, -1, -1>>,
      <<1, 6, 5, 2, 6, 1, -1, -1, -1, -1, -1, -1, -1, -1, -1, -1>>,
      <<1, 6, 5, 1, 2, 6, 3, 0, 8, -1, -1, -1, -1, -1, -1, -1>>,
      <<9, 6, 5, 9, 0, 6, 0, 2, 6, -1, -1, -1, -1, -1, -1, -1>>,
      <<5, 9, 8, 5, 8, 2, 5, 2, 6, 3, 2, 8, -1, -1, -1, -1>>,
      <<2, 3, 11, 10, 6, 5, -1, -1, -1, -1, -1, -1, -1, -1, -1, -1>>,
      <<11, 0, 8, 11, 2, 0, 10, 6, 5, -1, -1, -1, -1, -1, -1, -1>>,
      <<0, 1, 9, 2, 3, 11, 5, 10, 6, -1, -1, -1, -1, -1, -1, -1>>,
      <<5, 10, 6, 1, 9, 2, 9, 11, 2, 9, 8, 11, -1, -1, -1, -1>>,
      <<6, 3, 11, 6, 5, 3, 5, 1, 3, -1, -1, -1, -1, -1, -1, -1>>,
      <<0, 8, 11, 0, 11, 5, 0, 5, 1, 5, 11, 6, -1, -1, -1, -1>>,
      <<3, 11, 6, 0, 3, 6, 0, 6, 5, 0, 5, 9, -1, -1, -1, -1>>,
      <<6, 5, 9, 6, 9, 11, 11, 9, 8, -1, -1, -1, -1, -1, -1, -1>>,
      <<5, 10, 6, 4, 7, 8, -1, -1, -1, -1, -1, -1, -1, -1, -1, -1>>,
      <<4, 3, 0, 4, 7, 3, 6, 5, 10, -1, -1, -1, -1, -1, -1, -1>>,
      <<1, 9, 0, 5, 10, 6, 8, 4, 7, -1, -1, -1, -1, -1, -1, -1>>,
      <<10, 6, 5, 1, 9, 7, 1, 7, 3, 7, 9, 4, -1, -1, -1, -1>>,
      <<6, 1, 2, 6, 5, 1, 4, 7, 8, -1, -1, -1, -1, -1, -1, -1>>,
      <<1, 2, 5, 5, 2, 6, 3, 0, 4, 3, 4, 7, -1, -1, -1, -1>>,
      <<8, 4, 7, 9, 0, 5, 0, 6, 5, 0, 2, 6, -1, -1, -1, -1>>,
      <<7, 3, 9, 7, 9, 4, 3, 2, 9, 5, 9, 6, 2, 6, 9, -1>>,
      <<3, 11, 2, 7, 8, 4, 10, 6, 5, -1, -1, -1, -1, -1, -1, -1>>,
      <<5, 10, 6, 4, 7, 2, 4, 2, 0, 2, 7, 11, -1, -1, -1, -1>>,
      <<0, 1, 9, 4, 7, 8, 2, 3, 11, 5, 10, 6, -1, -1, -1, -1>>,
      <<9, 2, 1, 9, 11, 2, 9, 4, 11, 7, 11, 4, 5, 10, 6, -1>>,
      <<8, 4, 7, 3, 11, 5, 3, 5, 1, 5, 11, 6, -1, -1, -1, -1>>,
      <<5, 1, 11, 5, 11, 6, 1, 0, 11, 7, 11, 4, 0, 4, 11, -1>>,
      <<0, 5, 9, 0, 6, 5, 0, 3, 6, 11, 6, 3, 8, 4, 7, -1>>,
      <<6, 5, 9, 6, 9, 11, 4, 7, 9, 7, 11, 9, -1, -1, -1, -1>>,
      <<10, 4, 9, 6, 4, 10, -1, -1, -1, -1, -1, -1, -1, -1, -1, -1>>,
      <<4, 10, 6, 4, 9, 10, 0, 8, 3, -1, -1, -1, -1, -1, -1, -1>>,
      <<10, 0, 1, 10, 6, 0, 6, 4, 0, -1, -1, -1, -1, -1, -1, -1>>,
      <<8, 3, 1, 8, 1, 6, 8, 6, 4, 6, 1, 10, -1, -1, -1, -1>>,
      <<1, 4, 9, 1, 2, 4, 2, 6, 4, -1, -1, -1, -1, -1, -1, -1>>,
      <<3, 0, 8, 1, 2, 9, 2, 4, 9, 2, 6, 4, -1, -1, -1, -1>>,
      <<0, 2, 4, 4, 2, 6, -1, -1, -1, -1, -1, -1, -1, -1, -1, -1>>,
      <<8, 3, 2, 8, 2, 4, 4, 2, 6, -1, -1, -1, -1, -1, -1, -1>>,
      <<10, 4, 9, 10, 6, 4, 11, 2, 3, -1, -1, -1, -1, -1, -1, -1>>,
      <<0, 8, 2, 2, 8, 11, 4, 9, 10, 4, 10, 6, -1, -1, -1, -1>>,
      <<3, 11, 2, 0, 1, 6, 0, 6, 4, 6, 1, 10, -1, -1, -1, -1>>,
      <<6, 4, 1, 6, 1, 10, 4, 8, 1, 2, 1, 11, 8, 11, 1, -1>>,
      <<9, 6, 4, 9, 3, 6, 9, 1, 3, 11, 6, 3, -1, -1, -1, -1>>,
      <<8, 11, 1, 8, 1, 0, 11, 6, 1, 9, 1, 4, 6, 4, 1, -1>>,
      <<3, 11, 6, 3, 6, 0, 0, 6, 4, -1, -1, -1, -1, -1, -1, -1>>,
      <<6, 4, 8, 11, 6, 8, -1, -1, -1, -1, -1, -1, -1, -1, -1, -1>>,
      <<7, 10, 6, 7, 8, 10, 8, 9, 10, -1, -1, -1, -1, -1, -1, -1>>,
      <<0, 7, 3, 0, 10, 7, 0, 9, 10, 6, 7, 10, -1, -1, -1, -1>>,
      <<10, 6, 7, 1, 10, 7, 1, 7, 8, 1, 8, 0, -1, -1, -1, -1>>,
      <<10, 6, 7, 10, 7, 1, 1, 7, 3, -1, -1, -1, -1, -1, -1, -1>>,
      <<1, 2, 6, 1, 6, 8, 1, 8, 9, 8, 6, 7, -1, -1, -1, -1>>,
      <<2, 6, 9, 2, 9, 1, 6, 7, 9, 0, 9, 3, 7, 3, 9, -1>>,
      <<7, 8, 0, 7, 0, 6, 6, 0, 2, -1, -1, -1, -1, -1, -1, -1>>,
      <<7, 3, 2, 6, 7, 2, -1, -1, -1, -1, -1, -1, -1, -1, -1, -1>>,
      <<2, 3, 11, 10, 6, 8, 10, 8, 9, 8, 6, 7, -1, -1, -1, -1>>,
      <<2, 0, 7, 2, 7, 11, 0, 9, 7, 6, 7, 10, 9, 10, 7, -1>>,
      <<1, 8, 0, 1, 7, 8, 1, 10, 7, 6, 7, 10, 2, 3, 11, -1>>,
      <<11, 2, 1, 11, 1, 7, 10, 6, 1, 6, 7, 1, -1, -1, -1, -1>>,
      <<8, 9, 6, 8, 6, 7, 9, 1, 6, 11, 6, 3, 1, 3, 6, -1>>,
      <<0, 9, 1, 11, 6, 7, -1, -1, -1, -1, -1, -1, -1, -1, -1, -1>>,
      <<7, 8, 0, 7, 0, 6, 3, 11, 0, 11, 6, 0, -1, -1, -1, -1>>,
      <<7, 11, 6, -1, -1, -1, -1, -1, -1, -1, -1, -1, -1, -1, -1, -1>>,
      <<7, 6, 11, -1, -1, -1, -1, -1, -1, -1, -1, -1, -1, -1, -1, -1>>,
      <<3, 0, 8, 11, 7, 6, -1, -1, -1, -1, -1, -1, -1, -1, -1, -1>>,
      <<0, 1, 9, 11, 7, 6, -1, -1, -1, -1, -1, -1, -1, -1, -1, -1>>,
      <<8, 1, 9, 8, 3, 1, 11, 7, 6, -1, -1, -1, -1, -1, -1, -1>>,
      <<10, 1, 2, 6, 11, 7, -1, -1, -1, -1, -1, -1, -1, -1, -1, -1>>,
      <<1, 2, 10, 3, 0, 8, 6, 11, 7, -1, -1, -1, -1, -1, -1, -1>>,
      <<2, 9, 0, 2, 10, 9, 6, 11, 7, -1, -1, -1, -1, -1, -1, -1>>,
      <<6, 11, 7, 2, 10, 3, 10, 8, 3, 10, 9, 8, -1, -1, -1, -1>>,
      <<7, 2, 3, 6, 2, 7, -1, -1, -1, -1, -1, -1, -1, -1, -1, -1>>,
      <<7, 0, 8, 7, 6, 0, 6, 2, 0, -1, -1, -1, -1, -1, -1, -1>>,
      <<2, 7, 6, 2, 3, 7, 0, 1, 9, -1, -1, -1, -1, -1, -1, -1>>,
      <<1, 6, 2, 1, 8, 6, 1, 9, 8, 8, 7, 6, -1, -1, -1, -1>>,
      <<10, 7, 6, 10, 1, 7, 1, 3, 7, -1, -1, -1, -1, -1, -1, -1>>,
      <<10, 7, 6, 1, 7, 10, 1, 8, 7, 1, 0, 8, -1, -1, -1, -1>>,
      <<0, 3, 7, 0, 7, 10, 0, 10, 9, 6, 10, 7, -1, -1, -1, -1>>,
      <<7, 6, 10, 7, 10, 8, 8, 10, 9, -1, -1, -1, -1, -1, -1, -1>>,
      <<6, 8, 4, 11, 8, 6, -1, -1, -1, -1, -1, -1, -1, -1, -1, -1>>,
      <<3, 6, 11, 3, 0, 6, 0, 4, 6, -1, -1, -1, -1, -1, -1, -1>>,
      <<8, 6, 11, 8, 4, 6, 9, 0, 1, -1, -1, -1, -1, -1, -1, -1>>,
      <<9, 4, 6, 9, 6, 3, 9, 3, 1, 11, 3, 6, -1, -1, -1, -1>>,
      <<6, 8, 4, 6, 11, 8, 2, 10, 1, -1, -1, -1, -1, -1, -1, -1>>,
      <<1, 2, 10, 3, 0, 11, 0, 6, 11, 0, 4, 6, -1, -1, -1, -1>>,
      <<4, 11, 8, 4, 6, 11, 0, 2, 9, 2, 10, 9, -1, -1, -1, -1>>,
      <<10, 9, 3, 10, 3, 2, 9, 4, 3, 11, 3, 6, 4, 6, 3, -1>>,
      <<8, 2, 3, 8, 4, 2, 4, 6, 2, -1, -1, -1, -1, -1, -1, -1>>,
      <<0, 4, 2, 4, 6, 2, -1, -1, -1, -1, -1, -1, -1, -1, -1, -1>>,
      <<1, 9, 0, 2, 3, 4, 2, 4, 6, 4, 3, 8, -1, -1, -1, -1>>,
      <<1, 9, 4, 1, 4, 2, 2, 4, 6, -1, -1, -1, -1, -1, -1, -1>>,
      <<8, 1, 3, 8, 6, 1, 8, 4, 6, 6, 10, 1, -1, -1, -1, -1>>,
      <<10, 1, 0, 10, 0, 6, 6, 0, 4, -1, -1, -1, -1, -1, -1, -1>>,
      <<4, 6, 3, 4, 3, 8, 6, 10, 3, 0, 3, 9, 10, 9, 3, -1>>,
      <<10, 9, 4, 6, 10, 4, -1, -1, -1, -1, -1, -1, -1, -1, -1, -1>>,
      <<4, 9, 5, 7, 6, 11, -1, -1, -1, -1, -1, -1, -1, -1, -1, -1>>,
      <<0, 8, 3, 4, 9, 5, 11, 7, 6, -1, -1, -1, -1, -1, -1, -1>>,
      <<5, 0, 1, 5, 4, 0, 7, 6, 11, -1, -1, -1, -1, -1, -1, -1>>,
      <<11, 7, 6, 8, 3, 4, 3, 5, 4, 3, 1, 5, -1, -1, -1, -1>>,
      <<9, 5, 4, 10, 1, 2, 7, 6, 11, -1, -1, -1, -1, -1, -1, -1>>,
      <<6, 11, 7, 1, 2, 10, 0, 8, 3, 4, 9, 5, -1, -1, -1, -1>>,
      <<7, 6, 11, 5, 4, 10, 4, 2, 10, 4, 0, 2, -1, -1, -1, -1>>,
      <<3, 4, 8, 3, 5, 4, 3, 2, 5, 10, 5, 2, 11, 7, 6, -1>>,
      <<7, 2, 3, 7, 6, 2, 5, 4, 9, -1, -1, -1, -1, -1, -1, -1>>,
      <<9, 5, 4, 0, 8, 6, 0, 6, 2, 6, 8, 7, -1, -1, -1, -1>>,
      <<3, 6, 2, 3, 7, 6, 1, 5, 0, 5, 4, 0, -1, -1, -1, -1>>,
      <<6, 2, 8, 6, 8, 7, 2, 1, 8, 4, 8, 5, 1, 5, 8, -1>>,
      <<9, 5, 4, 10, 1, 6, 1, 7, 6, 1, 3, 7, -1, -1, -1, -1>>,
      <<1, 6, 10, 1, 7, 6, 1, 0, 7, 8, 7, 0, 9, 5, 4, -1>>,
      <<4, 0, 10, 4, 10, 5, 0, 3, 10, 6, 10, 7, 3, 7, 10, -1>>,
      <<7, 6, 10, 7, 10, 8, 5, 4, 10, 4, 8, 10, -1, -1, -1, -1>>,
      <<6, 9, 5, 6, 11, 9, 11, 8, 9, -1, -1, -1, -1, -1, -1, -1>>,
      <<3, 6, 11, 0, 6, 3, 0, 5, 6, 0, 9, 5, -1, -1, -1, -1>>,
      <<0, 11, 8, 0, 5, 11, 0, 1, 5, 5, 6, 11, -1, -1, -1, -1>>,
      <<6, 11, 3, 6, 3, 5, 5, 3, 1, -1, -1, -1, -1, -1, -1, -1>>,
      <<1, 2, 10, 9, 5, 11, 9, 11, 8, 11, 5, 6, -1, -1, -1, -1>>,
      <<0, 11, 3, 0, 6, 11, 0, 9, 6, 5, 6, 9, 1, 2, 10, -1>>,
      <<11, 8, 5, 11, 5, 6, 8, 0, 5, 10, 5, 2, 0, 2, 5, -1>>,
      <<6, 11, 3, 6, 3, 5, 2, 10, 3, 10, 5, 3, -1, -1, -1, -1>>,
      <<5, 8, 9, 5, 2, 8, 5, 6, 2, 3, 8, 2, -1, -1, -1, -1>>,
      <<9, 5, 6, 9, 6, 0, 0, 6, 2, -1, -1, -1, -1, -1, -1, -1>>,
      <<1, 5, 8, 1, 8, 0, 5, 6, 8, 3, 8, 2, 6, 2, 8, -1>>,
      <<1, 5, 6, 2, 1, 6, -1, -1, -1, -1, -1, -1, -1, -1, -1, -1>>,
      <<1, 3, 6, 1, 6, 10, 3, 8, 6, 5, 6, 9, 8, 9, 6, -1>>,
      <<10, 1, 0, 10, 0, 6, 9, 5, 0, 5, 6, 0, -1, -1, -1, -1>>,
      <<0, 3, 8, 5, 6, 10, -1, -1, -1, -1, -1, -1, -1, -1, -1, -1>>,
      <<10, 5, 6, -1, -1, -1, -1, -1, -1, -1, -1, -1, -1, -1, -1, -1>>,
      <<11, 5, 10, 7, 5, 11, -1, -1, -1, -1, -1, -1, -1, -1, -1, -1>>,
      <<11, 5, 10, 11, 7, 5, 8, 3, 0, -1, -1, -1, -1, -1, -1, -1>>,
      <<5, 11, 7, 5, 10, 11, 1, 9, 0, -1, -1, -1, -1, -1, -1, -1>>,
      <<10, 7, 5, 10, 11, 7, 9, 8, 1, 8, 3, 1, -1, -1, -1, -1>>,
      <<11, 1, 2, 11, 7, 1, 7, 5, 1, -1, -1, -1, -1, -1, -1, -1>>,
      <<0, 8, 3, 1, 2, 7, 1, 7, 5, 7, 2, 11, -1, -1, -1, -1>>,
      <<9, 7, 5, 9, 2, 7, 9, 0, 2, 2, 11, 7, -1, -1, -1, -1>>,
      <<7, 5, 2, 7, 2, 11, 5, 9, 2, 3, 2, 8, 9, 8, 2, -1>>,
      <<2, 5, 10, 2, 3, 5, 3, 7, 5, -1, -1, -1, -1, -1, -1, -1>>,
      <<8, 2, 0, 8, 5, 2, 8, 7, 5, 10, 2, 5, -1, -1, -1, -1>>,
      <<9, 0, 1, 5, 10, 3, 5, 3, 7, 3, 10, 2, -1, -1, -1, -1>>,
      <<9, 8, 2, 9, 2, 1, 8, 7, 2, 10, 2, 5, 7, 5, 2, -1>>,
      <<1, 3, 5, 3, 7, 5, -1, -1, -1, -1, -1, -1, -1, -1, -1, -1>>,
      <<0, 8, 7, 0, 7, 1, 1, 7, 5, -1, -1, -1, -1, -1, -1, -1>>,
      <<9, 0, 3, 9, 3, 5, 5, 3, 7, -1, -1, -1, -1, -1, -1, -1>>,
      <<9, 8, 7, 5, 9, 7, -1, -1, -1, -1, -1, -1, -1, -1, -1, -1>>,
      <<5, 8, 4, 5, 10, 8, 10, 11, 8, -1, -1, -1, -1, -1, -1, -1>>,
      <<5, 0, 4, 5, 11, 0, 5, 10, 11, 11, 3, 0, -1, -1, -1, -1>>,
      <<0, 1, 9, 8, 4, 10, 8, 10, 11, 10, 4, 5, -1, -1, -1, -1>>,
      <<10, 11, 4, 10, 4, 5, 11, 3, 4, 9, 4, 1, 3, 1, 4, -1>>,
      <<2, 5, 1, 2, 8, 5, 2, 11, 8, 4, 5, 8, -1, -1, -1, -1>>,
      <<0, 4, 11, 0, 11, 3, 4, 5, 11, 2, 11, 1, 5, 1, 11, -1>>,
      <<0, 2, 5, 0, 5, 9, 2, 11, 5, 4, 5, 8, 11, 8, 5, -1>>,
      <<9, 4, 5, 2, 11, 3, -1, -1, -1, -1, -1, -1, -1, -1, -1, -1>>,
      <<2, 5, 10, 3, 5, 2, 3, 4, 5, 3, 8, 4, -1, -1, -1, -1>>,
      <<5, 10, 2, 5, 2, 4, 4, 2, 0, -1, -1, -1, -1, -1, -1, -1>>,
      <<3, 10, 2, 3, 5, 10, 3, 8, 5, 4, 5, 8, 0, 1, 9, -1>>,
      <<5, 10, 2, 5, 2, 4, 1, 9, 2, 9, 4, 2, -1, -1, -1, -1>>,
      <<8, 4, 5, 8, 5, 3, 3, 5, 1, -1, -1, -1, -1, -1, -1, -1>>,
      <<0, 4, 5, 1, 0, 5, -1, -1, -1, -1, -1, -1, -1, -1, -1, -1>>,
      <<8, 4, 5, 8, 5, 3, 9, 0, 5, 0, 3, 5, -1, -1, -1, -1>>,
      <<9, 4, 5, -1, -1, -1, -1, -1, -1, -1, -1, -1, -1, -1, -1, -1>>,
      <<4, 11, 7, 4, 9, 11, 9, 10, 11, -1, -1, -1, -1, -1, -1, -1>>,
      <<0, 8, 3, 4, 9, 7, 9, 11, 7, 9, 10, 11, -1, -1, -1, -1>>,
      <<1, 10, 11, 1, 11, 4, 1, 4, 0, 7, 4, 11, -1, -1, -1, -1>>,
      <<3, 1, 4, 3, 4, 8, 1, 10, 4, 7, 4, 11, 10, 11, 4, -1>>,
      <<4, 11, 7, 9, 11, 4, 9, 2, 11, 9, 1, 2, -1, -1, -1, -1>>,
      <<9, 7, 4, 9, 11, 7, 9, 1, 11, 2, 11, 1, 0, 8, 3, -1>>,
      <<11, 7, 4, 11, 4, 2, 2, 4, 0, -1, -1, -1, -1, -1, -1, -1>>,
      <<11, 7, 4, 11, 4, 2, 8, 3, 4, 3, 2, 4, -1, -1, -1, -1>>,
      <<2, 9, 10, 2, 7, 9, 2, 3, 7, 7, 4, 9, -1, -1, -1, -1>>,
      <<9, 10, 7, 9, 7, 4, 10, 2, 7, 8, 7, 0, 2, 0, 7, -1>>,
      <<3, 7, 10, 3, 10, 2, 7, 4, 10, 1, 10, 0, 4, 0, 10, -1>>,
      <<1, 10, 2, 8, 7, 4, -1, -1, -1, -1, -1, -1, -1, -1, -1, -1>>,
      <<4, 9, 1, 4, 1, 7, 7, 1, 3, -1, -1, -1, -1, -1, -1, -1>>,
      <<4, 9, 1, 4, 1, 7, 0, 8, 1, 8, 7, 1, -1, -1, -1, -1>>,
      <<4, 0, 3, 7, 4, 3, -1, -1, -1, -1, -1, -1, -1, -1, -1, -1>>,
      <<4, 8, 7, -1, -1, -1, -1, -1, -1, -1, -1, -1, -1, -1, -1, -1>>,
      <<9, 10, 8, 10, 11, 8, -1, -1, -1, -1, -1, -1, -1, -1, -1, -1>>,
      <<3, 0, 9, 3, 9, 11, 11, 9, 10, -1, -1, -1, -1, -1, -1, -1>>,
      <<0, 1, 10, 0, 10, 8, 8, 10, 11, -1, -1, -1, -1, -1, -1, -1>>,
      <<3, 1, 10, 11, 3, 10, -1, -1, -1, -1, -1, -1, -1, -1, -1, -1>>,
      <<1, 2, 11, 1, 11, 9, 9, 11, 8, -1, -1, -1, -1, -1, -1, -1>>,
      <<3, 0, 9, 3, 9, 11, 1, 2, 9, 2, 11, 9, -1, -1, -1, -1>>,
      <<0, 2, 11, 8, 0, 11, -1, -1, -1, -1, -1, -1, -1, -1, -1, -1>>,
      <<3, 2, 11, -1, -1, -1, -1, -1, -1, -1, -1, -1, -1, -1, -1, -1>>,
      <<2, 3, 8, 2, 8, 10, 10, 8, 9, -1, -1, -1, -1, -1, -1, -1>>,
      <<9, 10, 2, 0, 9, 2, -1, -1, -1, -1, -1, -1, -1, -1, -1, -1>>,
      <<2, 3, 8, 2, 8, 10, 0, 1, 8, 1, 10, 8, -1, -1, -1, -1>>,
      <<1, 10, 2, -1, -1, -1, -1, -1, -1, -1, -1, -1, -1, -1, -1, -1>>,
      <<1, 3, 8, 9, 1, 8, -1, -1, -1, -1, -1, -1, -1, -1, -1, -1>>,
      <<0, 9, 1, -1, -1, -1, -1, -1, -1, -1, -1, -1, -1, -1, -1, -1>>,
      <<0, 3, 8, -1, -1, -1, -1, -1, -1, -1, -1, -1, -1, -1, -1, -1>>,
      <<-1, -1, -1, -1, -1, -1, -1, -1, -1, -1, -1, -1, -1, -1, -1, -1>>
    >>

(***************************************************************************)
(* SDFBuilder::extract_surface                                             *)
(***************************************************************************)
corner_offsets ==
    << <<0, 0, 0>>, <<1, 0, 0>>, <<1, 1, 0>>, <<0, 1, 0>>,
       <<0, 0, 1>>, <<1, 0, 1>>, <<1, 1, 1>>, <<0, 1, 1>> >>

edge_connections ==
    << <<0, 1>>, <<1, 2>>, <<2, 3>>, <<3, 0>>,
       <<4, 5>>, <<5, 6>>, <<6, 7>>, <<7, 4>>,
       <<0, 4>>, <<1, 5>>, <<2, 6>>, <<3, 7>> >>

ivec3_add(a, b) == <<a[1] + b[1], a[2] + b[2], a[3] + b[3]>>

ivec3_min(a, b) == <<std_min(a[1], b[1]), std_min(a[2], b[2]), std_min(a[3], b[3])>>

ivec3_max(a, b) == <<std_max(a[1], b[1]), std_max(a[2], b[2]), std_max(a[3], b[3])>>

\* a | b on non-negative integers
RECURSIVE bit_or(_, _)
bit_or(a, b) ==
    IF a = 0 THEN b
    ELSE IF b = 0 THEN a
    ELSE std_max(a % 2, b % 2) + 2 * bit_or(a \div 2, b \div 2)

\* (x << 44) | (y << 30) | (z << 16) | (axis << 14) as the four bit fields
\* [63..44], [43..30], [29..16], [15..0] of the 64-bit key; bits shifted past
\* a field's top land in the next field, bits past 63 are lost
edge_key_bits(x, y, z, axis) ==
    << bit_or(bit_or(x % 2^20, (y \div 2^14) % 2^20), (z \div 2^28) % 2^20),
       bit_or(y % 2^14, (z \div 2^14) % 2^14),
       z % 2^14,
       axis * 2^14 >>

edge_axis(min_c, max_c) ==
    IF max_c[1] # min_c[1] THEN 0 ELSE IF max_c[2] # min_c[2] THEN 1 ELSE 2

\* a plausible slip: the axis is left out of the key
make_edge_key_no_axis(c0, c1) ==
    LET min_c == ivec3_min(c0, c1)
    IN edge_key_bits(min_c[1], min_c[2], min_c[3], 0)

\* a plausible slip: the key is taken from the edge's first corner, not from
\* the smaller one
make_edge_key_first_corner(c0, c1) ==
    edge_key_bits(c0[1], c0[2], c0[3], edge_axis(ivec3_min(c0, c1), ivec3_max(c0, c1)))

make_edge_key(c0, c1) ==
    LET min_c == ivec3_min(c0, c1)
        max_c == ivec3_max(c0, c1)
    IN edge_key_bits(min_c[1], min_c[2], min_c[3], edge_axis(min_c, max_c))

cube_corner(cell, i) == ivec3_add(cell, corner_offsets[i + 1])

corner_value(g, cell, i) ==
    LET corner == cube_corner(cell, i) IN get(g, corner[1], corner[2], corner[3])

RECURSIVE cube_index_from(_, _, _, _)
cube_index_from(g, cell, iso_value, i) ==
    IF i = 8 THEN 0
    ELSE (IF corner_value(g, cell, i) < iso_value THEN 2^i ELSE 0)
         + cube_index_from(g, cell, iso_value, i + 1)

cube_index(g, cell, iso_value) == cube_index_from(g, cell, iso_value, 0)

\* flags & (1 << b)
bit_set(flags, b) == (flags \div 2^b) % 2 = 1

\* t = clamp((iso - v0) / (v1 - v0 + 0.0001f), 0, 1) as a fraction num/den with
\* den > 0.  A zero denominator gives +-infinity, clamped to 1 or 0, or NaN
\* (0/0), kept as 0/0.
edge_t(iso_value, v0, v1) ==
    LET num == iso_value - v0
        den == v1 - v0 + 1
    IN IF den = 0
       THEN [num |-> IF num > 0 THEN 1 ELSE 0, den |-> IF num = 0 THEN 0 ELSE 1]
       ELSE [num |-> std_clamp(IF den < 0 THEN -num ELSE num, 0, std_abs(den)),
             den |-> std_abs(den)]

\* a plausible slip: the placeholder normal is not pushed
push_vertex_no_normal(m, pos) == [m EXCEPT !.vertices = Append(@, pos)]

\* mesh.vertices.push_back(pos); mesh.normals.push_back(vec3(0))
push_vertex(m, pos) ==
    [m EXCEPT !.vertices = Append(@, pos),
              !.normals = Append(@, [kind |-> "placeholder"])]

\* the loop over the 12 edges of one cube (lines 432-470); a vertex is the
\* point mix(c0, c1, t) of its grid edge
RECURSIVE edge_loop(_, _, _, _, _, _)
edge_loop(st, g, cell, iso_value, edge_flags, edge) ==
    IF edge = 12 THEN st
    ELSE IF ~bit_set(edge_flags, edge)
    THEN edge_loop(st, g, cell, iso_value, edge_flags, edge + 1)
    ELSE LET c0 == edge_connections[edge + 1][1]
             c1 == edge_connections[edge + 1][2]
             corner0 == cube_corner(cell, c0)
             corner1 == cube_corner(cell, c1)
             edge_key == make_edge_key(corner0, corner1)
             vertex_index == Len(st.mesh.vertices)
             pos == [c0 |-> corner0, c1 |-> corner1,
                     t |-> edge_t(iso_value, corner_value(g, cell, c0),
                                  corner_value(g, cell, c1))]
             next ==
                IF edge_key \in DOMAIN st.vertex_cache
                THEN [st EXCEPT !.edge_vertices = Upd(@, edge, st.vertex_cache[edge_key])]
                ELSE [st EXCEPT !.mesh = push_vertex(@, pos),
                                !.edge_vertices = Upd(@, edge, vertex_index),
                                !.vertex_cache = Upd(@, edge_key, vertex_index)]
         IN edge_loop(next, g, cell, iso_value, edge_flags, edge + 1)

\* a plausible slip: the edge loop starts at edge 1, entry 0 is never written
edge_vertex_entry_0_lost(st, e, uninit) ==
    IF e \in DOMAIN st.edge_vertices /\ e # 0 THEN st.edge_vertices[e] ELSE uninit

\* edge_vertices[e]: the array is not initialized, an entry the edge loop did
\* not write holds whatever the stack held (uninit)
edge_vertex(st, e, uninit) ==
    IF e \in DOMAIN st.edge_vertices THEN st.edge_vertices[e] ELSE uninit

\* the loop over triangle_list (lines 474-483)
RECURSIVE triangle_loop(_, _, _, _)
triangle_loop(st, triangle_list, i, uninit) ==
    IF triangle_list[i + 1] = -1 THEN st
    ELSE triangle_loop(
            [st EXCEPT !.mesh.indices = @ \o <<edge_vertex(st, triangle_list[i + 1], uninit),
                                               edge_vertex(st, triangle_list[i + 2], uninit),
                                               edge_vertex(st, triangle_list[i + 3], uninit)>>,
                       !.triangles_generated = @ + 1],
            triangle_list, i + 3, uninit)

\* a plausible slip: the cut is taken one voxel too high
process_cube_cut_above(st, g, cell, iso_value, max_z, uninit) ==
    LET ci == cube_index(g, cell, iso_value)
    IN IF voxel_to_world(g, cell)[3] > max_z + g.voxel_size THEN st
       ELSE IF ci = 0 \/ ci = 255 THEN st
       ELSE LET with_edges == edge_loop([st EXCEPT !.edge_vertices = <<>>], g, cell, iso_value,
                                        edge_table[ci + 1], 0)
                with_triangles == triangle_loop(with_edges, triangle_table[ci + 1], 0, uninit)
            IN [with_triangles EXCEPT !.cubes_processed = @ + 1]

\* the body of the cube loop for one cube (lines 399-485)
process_cube(st, g, cell, iso_value, max_z, uninit) ==
    LET ci == cube_index(g, cell, iso_value)
    IN IF voxel_to_world(g, cell)[3] > max_z THEN st
       ELSE IF ci = 0 \/ ci = 255 THEN st
       ELSE LET with_edges == edge_loop([st EXCEPT !.edge_vertices = <<>>], g, cell, iso_value,
                                        edge_table[ci + 1], 0)
                with_triangles == triangle_loop(with_edges, triangle_table[ci + 1], 0, uninit)
            IN [with_triangles EXCEPT !.cubes_processed = @ + 1]

SetMin(S) == CHOOSE m \in S : \A n \in S : m <= n

SetMax(S) == CHOOSE m \in S : \A n \in S : n <= m

\* The cubes the loops of lines 396-398 visit, in their order (x fastest),
\* left out those that certainly take the "continue" of line 423: a cube none
\* of whose corners was written since the last fill has 8 equal corner values.
\* The rest is the box of cubes around the written voxels.
cubes_in_order(g) ==
    IF DOMAIN g.data = {} THEN <<>>
    ELSE LET written == {voxel_of(g, i) : i \in DOMAIN g.data}
             lo == [a \in 1..3 |-> std_max(0, SetMin({v[a] : v \in written}) - 1)]
             hi == [a \in 1..3 |-> std_min(g.resolution - 2, SetMax({v[a] : v \in written}))]
             ext == [a \in 1..3 |-> std_max(0, hi[a] - lo[a] + 1)]
         IN [k \in 1..(ext[1] * ext[2] * ext[3]) |->
                <<lo[1] + ((k - 1) % ext[1]),
                  lo[2] + (((k - 1) \div ext[1]) % ext[2]),
                  lo[3] + ((k - 1) \div (ext[1] * ext[2]))>>]

\* the cubes k..last, in their order; the range is halved so that the depth
\* of the evaluation grows with the logarithm of the number of cubes
RECURSIVE cube_loop(_, _, _, _, _, _, _, _)
cube_loop(st, g, cubes, k, last, iso_value, max_z, uninit) ==
    IF k > last \/ st.cubes_processed < 0 THEN st
    ELSE IF k = last THEN process_cube(st, g, cubes[k], iso_value, max_z, uninit)
    ELSE cube_loop(cube_loop(st, g, cubes, k, (k + last) \div 2, iso_value, max_z, uninit),
                   g, cubes, (k + last) \div 2 + 1, last, iso_value, max_z, uninit)

\* lines 497-532: a vertex some triangle refers to gets the normalized average
\* of its triangles' face normals, any other the fallback (0,0,1)
vertex_normals(m) ==
    LET referenced == {m.indices[i] : i \in 1..Len(m.indices)}
    IN [i \in 1..Len(m.normals) |->
            IF (i - 1) \in referenced THEN [kind |-> "averaged"] ELSE [kind |-> "fallback"]]

\* normal_accum[i0] and mesh.vertices[i0] with i0 outside the vectors
normals_bad_access(m) ==
    \E i \in 1..Len(m.indices) : m.indices[i] < 0 \/ m.indices[i] >= Len(m.vertices)

extract_surface(g, iso_value, max_z, uninit) ==
    LET st0 == [mesh |-> [vertices |-> <<>>, normals |-> <<>>, indices |-> <<>>],
                vertex_cache |-> <<>>, edge_vertices |-> <<>>,
                cubes_processed |-> 0, triangles_generated |-> 0]
        cubes == cubes_in_order(g)
        st == cube_loop(st0, g, cubes, 1, Len(cubes), iso_value, max_z, uninit)
    IN [mesh |-> [st.mesh EXCEPT !.normals = vertex_normals(st.mesh)],
        cubes_processed |-> st.cubes_processed,
        triangles_generated |-> st.triangles_generated,
        bad_access |-> normals_bad_access(st.mesh)]

(***************************************************************************)
(* Specification SpecMC: extract_surface on grids holding a small solid    *)
(***************************************************************************)
McRes == GridRes + 2

McBounds == [min |-> <<0, 0, 0>>, max |-> <<20 * (McRes - 1), 20 * (McRes - 1), 20 * (McRes - 1)>>]

\* the solid lives in a window of 2 x 2 x 2 voxels: inside the grid, on its
\* lower faces, and in its upper corner
WindowOrigins == {<<1, 1, 1>>, <<0, 1, 1>>, <<McRes - 2, McRes - 2, McRes - 2>>}

WindowVoxels(o) == {ivec3_add(o, d) : d \in {0, 1} \X {0, 1} \X {0, 1}}

\* distance values inside and outside the solid
InsideValue == -1000

OutsideValue == 3000

\* the grid after set(v, InsideValue) for v in solid and set(v, OutsideValue)
\* for the window's other voxels
McGrid(o, solid) ==
    [DenseVoxelGrid(McRes, McBounds) EXCEPT
        !.data = [i \in {index(DenseVoxelGrid(McRes, McBounds), v[1], v[2], v[3]) :
                             v \in WindowVoxels(o)} |->
                     IF voxel_of(DenseVoxelGrid(McRes, McBounds), i) \in solid
                     THEN InsideValue ELSE OutsideValue]]

McGrids == UNION {{McGrid(o, solid) : solid \in SUBSET WindowVoxels(o)} : o \in WindowOrigins}

IsoValues == {0, 5000}

MaxZValues == {FLT_MAX, 20}

\* what an uninitialized edge_vertices entry may hold
UninitValues == {0, 1000000}

\* the largest grid validate() lets through, freshly allocated
LargestGrid ==
    DenseVoxelGrid(MaxResolution,
                   [min |-> <<0, 0, 0>>,
                    max |-> <<20 * (MaxResolution - 1), 20 * (MaxResolution - 1),
                              20 * (MaxResolution - 1)>>])

InitMC ==
    /\ grid \in McGrids \cup {LargestGrid}
    /\ sparse = NoSparse
    /\ mesh = NoMesh
    /\ opts = DefaultOptions
    /\ ret = [op |-> "none"]
    /\ fault = FALSE
    /\ nwrites = 0
    /\ stats_ = <<>>
    /\ history = <<>>
    /\ sorter = PrintSelectFileSorter
    /\ files = <<>>
    /\ capabilities_ = <<>>
    /\ reloader = <<>>
    /\ disk = <<>>
    /\ heap = <<>>

ExtractSurface(iso_value, max_z, uninit) ==
    /\ ret.op = "none"
    /\ \E r \in {extract_surface(grid, iso_value, max_z, uninit)} :
       /\ mesh' = r.mesh
       /\ fault' = r.bad_access
       /\ ret' = [op |-> "extract_surface", iso_value |-> iso_value, max_z |-> max_z,
                  cubes_processed |-> r.cubes_processed,
                  triangles_generated |-> r.triangles_generated]
       /\ UNCHANGED <<grid, sparse, opts, nwrites, stats_, history, sorter, files, capabilities_, reloader, disk, heap>>

\* cubes of the loops of lines 396-398: the grid's corners and a cube between
KeyProbeCubes(g) ==
    {<<0, 0, 0>>, <<1, 1, 1>>, <<0, g.resolution - 2, 5>>,
     <<g.resolution - 2, g.resolution - 2, g.resolution - 2>>}

NeighbourCubes(g, cube) ==
    {c \in {ivec3_add(cube, d) : d \in {-1, 0, 1} \X {-1, 0, 1} \X {-1, 0, 1}} :
        \A a \in 1..3 : c[a] >= 0 /\ c[a] <= g.resolution - 2}

\* the key of one edge of one cube, as line 443 computes it
cube_edge_key(cube, edge) ==
    LET corner0 == cube_corner(cube, edge_connections[edge + 1][1])
        corner1 == cube_corner(cube, edge_connections[edge + 1][2])
    IN [corner0 |-> corner0, corner1 |-> corner1, edge_key |-> make_edge_key(corner0, corner1)]

\* the keys of two (cube, local edge) pairs of one extraction; the key does
\* not read the grid's values, the pairs are taken on the largest grid
MakeEdgeKey ==
    /\ ret.op = "none"
    /\ grid = LargestGrid
    /\ \E cube_a \in KeyProbeCubes(grid), edge_a, edge_b \in 0..11 :
          \E cube_b \in NeighbourCubes(grid, cube_a) \cup KeyProbeCubes(grid) :
             ret' = [op |-> "make_edge_key", a |-> cube_edge_key(cube_a, edge_a),
                     b |-> cube_edge_key(cube_b, edge_b)]
    /\ UNCHANGED <<grid, sparse, mesh, opts, fault, nwrites, stats_, history, sorter, files, capabilities_, reloader, disk, heap>>

NextMC ==
    \/ \E iso_value \in IsoValues, max_z \in MaxZValues, uninit \in UninitValues :
          ExtractSurface(iso_value, max_z, uninit)
    \/ MakeEdgeKey

SpecMC == InitMC /\ [][NextMC]_vars

(***************************************************************************)
(* Claims on the surface extraction                                        *)
(***************************************************************************)
GridEdge(c0, c1) == {c0, c1}

\* the cubes the extraction does not skip, and their crossed grid edges
CrossingCubes ==
    {cubes_in_order(grid)[k] : k \in 1..Len(cubes_in_order(grid))} \cap
    {c \in (0..(grid.resolution - 2)) \X (0..(grid.resolution - 2)) \X (0..(grid.resolution - 2)) :
        /\ voxel_to_world(grid, c)[3] <= ret.max_z
        /\ \E i, j \in 0..7 : (corner_value(grid, c, i) < ret.iso_value)
                                # (corner_value(grid, c, j) < ret.iso_value)}

CubeEdges(c) ==
    {GridEdge(cube_corner(c, edge_connections[e][1]), cube_corner(c, edge_connections[e][2])) :
        e \in 1..12}

IsCrossed(e) ==
    \E p, q \in e : /\ get(grid, p[1], p[2], p[3]) < ret.iso_value
                    /\ ~(get(grid, q[1], q[2], q[3]) < ret.iso_value)

CrossedEdges == {e \in UNION {CubeEdges(c) : c \in CrossingCubes} : IsCrossed(e)}

VertexEdge(i) == GridEdge(mesh.vertices[i].c0, mesh.vertices[i].c1)

\* C1: two (cube, local edge) pairs get the same key iff they are the same
\* grid edge, on grids up to resolution 1024; every crossed grid edge has
\* exactly one vertex of the mesh, and the vertices are fewer than 12 per
\* crossing cube as soon as two crossing cubes share an edge.
C1_EdgeKeyCanonical ==
    /\ ret.op = "make_edge_key" =>
          ((ret.a.edge_key = ret.b.edge_key)
              <=> (GridEdge(ret.a.corner0, ret.a.corner1) = GridEdge(ret.b.corner0, ret.b.corner1)))
    /\ ret.op = "extract_surface" =>
          /\ \A i, j \in 1..Len(mesh.vertices) : VertexEdge(i) = VertexEdge(j) => i = j
          /\ {VertexEdge(i) : i \in 1..Len(mesh.vertices)} = CrossedEdges
          /\ (\E c, d \in CrossingCubes : c # d /\ CubeEdges(c) \cap CubeEdges(d) # {})
                => Len(mesh.vertices) < 12 * Cardinality(CrossingCubes)

\* C1 witness: two different cubes at the far corner of a 1024 grid met on a
\* shared edge and got one key
C1_Witness ==
    /\ ret.op = "make_edge_key"
    /\ ret.a.edge_key = ret.b.edge_key
    /\ ret.a.corner0 # ret.b.corner0
    /\ \E a \in 1..3 : ret.a.corner0[a] = MaxResolution - 1

\* C1 witness of the extraction: a vertex reused by several cubes
C1_WitnessShared ==
    /\ ret.op = "extract_surface"
    /\ Cardinality(CrossingCubes) >= 2
    /\ Len(mesh.vertices) > 0
    /\ Len(mesh.vertices) < 12 * Cardinality(CrossingCubes)

Triangles == 1..(Len(mesh.indices) \div 3)

TriangleVertices(k) == {mesh.indices[3 * k - 2], mesh.indices[3 * k - 1], mesh.indices[3 * k]}

\* every voxel on the outer faces of the grid is at or above the iso value;
\* outside the written voxels every value is the fill value
BoundaryClear ==
    /\ grid.fillv >= ret.iso_value
    /\ \A i \in DOMAIN grid.data :
          (\E a \in 1..3 : voxel_of(grid, i)[a] \in {0, grid.resolution - 1})
              => grid.data[i] >= ret.iso_value

\* C2: the solid does not touch the grid boundary and there is no max-Z
\* cutoff => every mesh edge is in exactly two triangles
C2_Watertight ==
    (ret.op = "extract_surface" /\ ret.max_z = FLT_MAX /\ BoundaryClear) =>
        \A k \in Triangles : \A v, w \in TriangleVertices(k) :
            v # w => Cardinality({j \in Triangles : {v, w} \subseteq TriangleVertices(j)}) = 2

\* C2 witness: a closed surface around a solid with two diagonal voxels
C2_Witness ==
    /\ ret.op = "extract_surface" /\ ret.max_z = FLT_MAX /\ BoundaryClear
    /\ Len(mesh.indices) >= 3 * 16
    /\ get(grid, 1, 1, 1) < ret.iso_value /\ get(grid, 2, 2, 1) < ret.iso_value
    /\ ~(get(grid, 2, 1, 1) < ret.iso_value) /\ ~(get(grid, 1, 2, 1) < ret.iso_value)

\* C3: the mesh has one normal per vertex, whole triangles, and no index
\* outside the vertices, for every grid, iso value and max_z
C3_MeshWellFormed ==
    ret.op = "extract_surface" =>
        /\ Len(mesh.normals) = Len(mesh.vertices)
        /\ Len(mesh.indices) % 3 = 0
        /\ \A i \in 1..Len(mesh.indices) : mesh.indices[i] >= 0 /\ mesh.indices[i] < Len(mesh.vertices)
        /\ ~fault

\* C3 witness: a mesh cut by max_z, from a solid on the grid's boundary
C3_Witness ==
    /\ ret.op = "extract_surface"
    /\ ret.max_z < FLT_MAX
    /\ ~BoundaryClear
    /\ Len(mesh.indices) > 0
    /\ Len(mesh.normals) = Len(mesh.vertices)

(***************************************************************************)
(* SDFBuilder::build                                                       *)
(***************************************************************************)
\* all_segments: the segments of all layers, in order (lines 140-143)
RECURSIVE flatten_layers(_, _)
flatten_layers(layers, i) ==
    IF i > Len(layers) THEN <<>>
    ELSE layers[i].segments \o flatten_layers(layers, i + 1)

\* TriangleMesh::memory_usage, sizeof(glm::vec3) = 12, sizeof(uint32_t) = 4
mesh_memory_usage(m) == Len(m.vertices) * 12 + Len(m.normals) * 12 + Len(m.indices) * 4

triangle_count(m) == Len(m.indices) \div 3

\* a plausible slip: travel moves are not counted as input segments
build_stats_extruding_only(all_segments, g, m) ==
    [input_segments |-> Cardinality({i \in 1..Len(all_segments) : all_segments[i].is_extrusion}),
     output_vertices |-> Len(m.vertices),
     output_triangles |-> Len(m.indices) \div 3,
     voxel_grid_bytes |-> [elements |-> data_size(g), element_bytes |-> 4],
     output_mesh_bytes |-> Len(m.vertices) * 12 + Len(m.normals) * 12 + Len(m.indices) * 4]

\* a plausible slip: the index count taken for the triangle count
build_stats_index_count(all_segments, g, m) ==
    [input_segments |-> Len(all_segments),
     output_vertices |-> Len(m.vertices),
     output_triangles |-> Len(m.indices),
     voxel_grid_bytes |-> [elements |-> data_size(g), element_bytes |-> 4],
     output_mesh_bytes |-> Len(m.vertices) * 12 + Len(m.normals) * 12 + Len(m.indices) * 4]

\* lines 167-175, without the three measured durations.  voxel_grid_bytes is
\* data_.size() * sizeof(float), kept as its two factors: at resolution 1024
\* the product is 2^32
build_stats(all_segments, g, m) ==
    [input_segments |-> Len(all_segments),
     output_vertices |-> Len(m.vertices),
     output_triangles |-> triangle_count(m),
     voxel_grid_bytes |-> [elements |-> data_size(g), element_bytes |-> 4],
     output_mesh_bytes |-> mesh_memory_usage(m)]

(***************************************************************************)
(* Specification SpecBuild: one build per run                              *)
(***************************************************************************)
\* a print volume wide enough for a voxel of 4 mm at resolution 1024
BuildBounds ==
    [min |-> <<0, 0, 0>>,
     max |-> <<400 * (MaxResolution - 1), 400 * (MaxResolution - 1), 400 * (MaxResolution - 1)>>]

\* a dot of wall, a dot of infill and a travel move in two layers; and a file
\* without layers
GCodeSamples ==
    { [layers |-> << [segments |-> << Seg(<<0, 0, 0>>, <<0, 0, 0>>, TRUE,
                                          <<"O", "u", "t", "e", "r", " ", "w", "a", "l", "l">>) >>],
                     [segments |-> << Seg(<<400, 0, 0>>, <<400, 0, 0>>, TRUE,
                                          <<"S", "u", "p", "p", "o", "r", "t">>),
                                      Seg(<<400, 0, 0>>, <<0, 400, 0>>, FALSE, <<>>) >>] >>,
       global_bounding_box |-> BuildBounds],
      [layers |-> <<>>, global_bounding_box |-> BuildBounds] }

ResolutionSamples == {-5, 0, 32, 63, 64, 65, 256, 1023, 1024, 1025, 4096}

SmoothingSamples == {0, 1000, 5000, 20000, 30000}

SegmentRadiusSamples == {10, 499, 500, 2100, 10000, 100000}

OptionSamples ==
    {[DefaultOptions EXCEPT !.grid_resolution = r, !.smoothing_radius = k,
                            !.segment_radius_mm = sr] :
        r \in ResolutionSamples, k \in SmoothingSamples, sr \in SegmentRadiusSamples}

\* the SDFBuilder objects of a run
Builders == {1, 2}

\* SDFBuilder() = default leaves stats_ uninitialized (BuildStats has no
\* member initializers): before the first build it holds any values
IndeterminateStats ==
    { [input_segments |-> 0, output_vertices |-> 0, output_triangles |-> 0,
       voxel_grid_bytes |-> [elements |-> 0, element_bytes |-> 4], output_mesh_bytes |-> 0],
      [input_segments |-> 7, output_vertices |-> 11, output_triangles |-> 5,
       voxel_grid_bytes |-> [elements |-> 13, element_bytes |-> 4], output_mesh_bytes |-> 3] }

InitBuild ==
    /\ grid = DenseVoxelGrid(GridRes, TestBounds)
    /\ sparse = NoSparse
    /\ mesh = NoMesh
    /\ opts = DefaultOptions
    /\ ret = [op |-> "none"]
    /\ fault = FALSE
    /\ nwrites = 0
    /\ stats_ \in [{1} -> IndeterminateStats]
    /\ history = <<>>
    /\ sorter = PrintSelectFileSorter
    /\ files = <<>>
    /\ capabilities_ = <<>>
    /\ reloader = <<>>
    /\ disk = <<>>
    /\ heap = <<>>

\* a plausible slip: the segment count is recorded before the grid is allocated
stats_on_throw_counted(stats, all_segments) ==
    [stats EXCEPT !.input_segments = Len(all_segments)]

\* stats_ when the allocation of the grid throws: build assigns stats_ only
\* after the extraction (lines 165-175)
stats_on_throw(stats, all_segments) == stats

\* the number of build calls of a run
MaxBuilds == 2

\* build(gcode, options) on one of the builders, b: opts and grid are its
\* locals of those names, mesh is the mesh it returns, ret.stats is
\* last_stats() after the call.  bad_alloc: the allocation of the grid's data_
\* (line 152) throws std::bad_alloc; build has no handler, the exception
\* leaves it before anything else runs and no mesh is returned.
Build(gcode, options, uninit, bad_alloc) ==
    /\ Len(history) < MaxBuilds
    /\ \E o \in {validate(options)} :
       \E all_segments \in {flatten_layers(gcode.layers, 1)} :
          IF bad_alloc
          THEN \E b \in DOMAIN stats_ :
               \E st \in {stats_on_throw(stats_[b], all_segments)} :
                  /\ opts' = o
                  /\ mesh' = NoMesh
                  /\ stats_' = [stats_ EXCEPT ![b] = st]
                  /\ ret' = [op |-> "bad_alloc", options |-> options, stats |-> st]
                  /\ history' = Append(history, [builder |-> b, gcode |-> gcode,
                                                 options |-> options, threw |-> TRUE,
                                                 mesh |-> NoMesh, stats |-> st])
                  /\ UNCHANGED <<grid, fault, capabilities_, reloader, disk, heap>>
          ELSE \E sdf \in {generate_sdf(DenseVoxelGrid(o.grid_resolution,
                                                       gcode.global_bounding_box),
                                        all_segments, o.segment_radius_mm,
                                        o.smoothing_radius)} :
               \E r \in {extract_surface(sdf.grid, o.iso_value, o.max_z_height, uninit)} :
               \E st \in {build_stats(all_segments, sdf.grid, r.mesh)} :
               \E b \in DOMAIN stats_ :
                  /\ opts' = o
                  /\ grid' = sdf.grid
                  /\ mesh' = r.mesh
                  /\ fault' = r.bad_access
                  /\ stats_' = [stats_ EXCEPT ![b] = st]
                  /\ ret' = [op |-> "build", options |-> options, stats |-> st]
                  /\ history' = Append(history, [builder |-> b, gcode |-> gcode,
                                                 options |-> options, threw |-> FALSE,
                                                 mesh |-> r.mesh, stats |-> st])
    /\ UNCHANGED <<sparse, nwrites, sorter, files, capabilities_, reloader, disk, heap>>

\* one build per run
NextBuild ==
    \E gcode \in GCodeSamples, options \in OptionSamples, uninit \in UninitValues,
       bad_alloc \in BOOLEAN :
        history = <<>> /\ Build(gcode, options, uninit, bad_alloc)

SpecBuild == InitBuild /\ [][NextBuild]_vars

(***************************************************************************)
(* Claims on the options                                                   *)
(***************************************************************************)
\* n is the value of [lo, hi] nearest to v: no value of the range is nearer,
\* and the nearest one is an end of the range or v itself
IsNearest(n, v, lo, hi) ==
    /\ n >= lo /\ n <= hi
    /\ \A m \in {lo, hi, v} : (m >= lo /\ m <= hi) => std_abs(v - n) <= std_abs(v - m)

\* C10: validate() replaces the three options by the nearest value of their
\* range ([64,1024], [0.1,2.0] mm, [0.05,1.0] mm), changes no value in range,
\* and validating twice is validating once; build takes every options value
\* (it has no condition on them) and allocates its grid with the clamped
\* resolution.
C10_OptionsClamped ==
    /\ \A options \in OptionSamples :
          /\ validate(options).grid_resolution \in 64..1024
          /\ validate(options).smoothing_radius \in 1000..20000
          /\ validate(options).segment_radius_mm \in 500..10000
          /\ validate(validate(options)) = validate(options)
    /\ ret.op = "build" =>
          /\ IsNearest(opts.grid_resolution, ret.options.grid_resolution, 64, 1024)
          /\ IsNearest(opts.smoothing_radius, ret.options.smoothing_radius, 1000, 20000)
          /\ IsNearest(opts.segment_radius_mm, ret.options.segment_radius_mm, 500, 10000)
          /\ ret.options.grid_resolution \in 64..1024 =>
                opts.grid_resolution = ret.options.grid_resolution
          /\ ret.options.smoothing_radius \in 1000..20000 =>
                opts.smoothing_radius = ret.options.smoothing_radius
          /\ ret.options.segment_radius_mm \in 500..10000 =>
                opts.segment_radius_mm = ret.options.segment_radius_mm
          /\ validate(opts) = opts
          /\ opts.iso_value = ret.options.iso_value
          /\ opts.max_z_height = ret.options.max_z_height
          /\ grid.resolution = opts.grid_resolution
          /\ ret.stats.voxel_grid_bytes.elements
                = opts.grid_resolution * opts.grid_resolution * opts.grid_resolution

\* C10 witness: a build asked for 4096^3 voxels and a 10 mm radius ran on a
\* 1024^3 grid with a 1 mm radius
C10_Witness ==
    /\ ret.op = "build"
    /\ ret.options.grid_resolution = 4096 /\ grid.resolution = 1024
    /\ ret.options.segment_radius_mm = 100000 /\ opts.segment_radius_mm = 10000
    /\ ret.stats.input_segments = 3

(***************************************************************************)
(* Claims on the partial extraction                                        *)
(***************************************************************************)
\* z of grid corner c, in position units
CornerZ(c) == voxel_to_world(grid, c)[3]

\* z of vertex i is ZNum(i) / ZDen(i): the point mix(c0, c1, t) of its edge
ZDen(i) == IF mesh.vertices[i].t.den = 0 THEN 1 ELSE mesh.vertices[i].t.den

ZNum(i) ==
    LET v == mesh.vertices[i]
    IN CornerZ(v.c0) * ZDen(i) + (CornerZ(v.c1) - CornerZ(v.c0)) * v.t.num

\* C11 as claimed: with max_z set, every vertex has z <= max_z + epsilon for
\* an epsilon below one voxel, i.e. z < max_z + voxel_size
C11_VerticesBelowCut ==
    (ret.op = "extract_surface" /\ ret.max_z < FLT_MAX) =>
        \A i \in 1..Len(mesh.vertices) :
            ZNum(i) < (ret.max_z + grid.voxel_size) * ZDen(i)

\* C11 amended: with max_z set, the cubes that contribute are those whose
\* lowest corner is at or below max_z (they may reach one voxel above it):
\* every vertex lies on an edge of such a cube and has z <= max_z + voxel_size
C11_VerticesWithinOneVoxel ==
    (ret.op = "extract_surface" /\ ret.max_z < FLT_MAX) =>
        \A i \in 1..Len(mesh.vertices) :
            /\ ZNum(i) <= (ret.max_z + grid.voxel_size) * ZDen(i)
            /\ \E c \in CrossingCubes : CornerZ(c) <= ret.max_z /\ VertexEdge(i) \in CubeEdges(c)

\* C11 witness: a vertex exactly one voxel above the cut, on the top face of
\* a cube whose lowest corner is on the cut
C11_Witness ==
    /\ ret.op = "extract_surface" /\ ret.max_z < FLT_MAX
    /\ \E i \in 1..Len(mesh.vertices) :
          /\ CornerZ(mesh.vertices[i].c0) = ret.max_z + grid.voxel_size
          /\ CornerZ(mesh.vertices[i].c1) = ret.max_z + grid.voxel_size

(***************************************************************************)
(* Specification SpecRebuild: several builds per run, on two builders       *)
(***************************************************************************)
\* a print volume of 12.6 mm: at resolution 64 the voxel is 0.2 mm
RebuildBounds ==
    [min |-> <<0, 0, 0>>,
     max |-> <<20 * (MinResolution - 1), 20 * (MinResolution - 1), 20 * (MinResolution - 1)>>]

OuterWall == <<"O", "u", "t", "e", "r", " ", "w", "a", "l", "l">>

InternalInfill == <<"I", "n", "t", "e", "r", "n", "a", "l", " ", "i", "n", "f", "i", "l", "l">>

\* two layers of wall, one above the other, with infill and a travel move
WallColumn ==
    [layers |-> << [segments |-> << Seg(<<20, 20, 60>>, <<40, 20, 60>>, TRUE, OuterWall),
                                    Seg(<<40, 20, 60>>, <<40, 40, 60>>, TRUE, InternalInfill) >>],
                   [segments |-> << Seg(<<40, 40, 60>>, <<20, 20, 80>>, FALSE, <<>>),
                                    Seg(<<20, 20, 80>>, <<40, 20, 80>>, TRUE, OuterWall) >>] >>,
     global_bounding_box |-> RebuildBounds]

\* Scenario B of the specification: two extruding segments, "Internal
\* infill" and "Outer wall"; the wall is a dot just above a lattice plane
ScenarioB ==
    [layers |-> << [segments |-> << Seg(<<20, 20, 61>>, <<40, 20, 61>>, TRUE, InternalInfill),
                                    Seg(<<20, 20, 61>>, <<20, 20, 61>>, TRUE, OuterWall) >>] >>,
     global_bounding_box |-> RebuildBounds]

\* nothing to rasterize: infill, support and a travel move
AllFiltered ==
    [layers |-> << [segments |-> << Seg(<<20, 20, 60>>, <<40, 20, 60>>, TRUE, InternalInfill),
                                    Seg(<<40, 20, 60>>, <<40, 40, 60>>, FALSE, OuterWall) >>],
                   [segments |-> << Seg(<<20, 20, 80>>, <<40, 20, 80>>, TRUE,
                                        <<"S", "u", "p", "p", "o", "r", "t">>) >>] >>,
     global_bounding_box |-> RebuildBounds]

NoSegments == [layers |-> << [segments |-> <<>>] >>, global_bounding_box |-> RebuildBounds]

RebuildGCodes == {WallColumn, ScenarioB, AllFiltered, NoSegments}

\* a thin wall (radius 0.1 mm, smoothing 0.1 mm), whole and cut at z = 0.6 mm
RebuildOptions ==
    {[grid_resolution |-> MinResolution, smoothing_radius |-> 1000, segment_radius_mm |-> 1000,
      iso_value |-> 0, max_z_height |-> z] : z \in {FLT_MAX, 60}}

InitRebuild ==
    /\ grid = DenseVoxelGrid(GridRes, TestBounds)
    /\ sparse = NoSparse
    /\ mesh = NoMesh
    /\ opts = DefaultOptions
    /\ ret = [op |-> "none"]
    /\ fault = FALSE
    /\ nwrites = 0
    /\ stats_ \in [Builders -> IndeterminateStats]
    /\ history = <<>>
    /\ sorter = PrintSelectFileSorter
    /\ files = <<>>
    /\ capabilities_ = <<>>
    /\ reloader = <<>>
    /\ disk = <<>>
    /\ heap = <<>>

NextRebuild ==
    \E gcode \in RebuildGCodes, options \in RebuildOptions, uninit \in UninitValues,
       bad_alloc \in BOOLEAN :
        Build(gcode, options, uninit, bad_alloc)

SpecRebuild == InitRebuild /\ [][NextRebuild]_vars

(***************************************************************************)
(* Claims on the partial build                                             *)
(***************************************************************************)
Calls == 1..Len(history)

\* the largest z of the toolpath's segments
ToolpathMaxZ(gcode) ==
    LET segments == flatten_layers(gcode.layers, 1)
    IN SetMax({segments[i].start[3] : i \in 1..Len(segments)} \cup
              {segments[i].end[3] : i \in 1..Len(segments)})

\* <<i, j>>: call i is an unrestricted build and call j a build of the same
\* toolpath with otherwise equal options and max_z_height below the
\* toolpath's maximum Z; one of the two is the build that just returned, so
\* that grid is the grid of both
PartialPairs ==
    {p \in Calls \X Calls :
        /\ Len(history) \in {p[1], p[2]}
        /\ ~history[p[1]].threw /\ ~history[p[2]].threw
        /\ history[p[1]].gcode = history[p[2]].gcode
        /\ history[p[1]].options.max_z_height = FLT_MAX
        /\ history[p[2]].options.max_z_height < FLT_MAX
        /\ history[p[1]].options = [history[p[2]].options EXCEPT !.max_z_height = FLT_MAX]
        /\ flatten_layers(history[p[2]].gcode.layers, 1) # <<>>
        /\ history[p[2]].options.max_z_height < ToolpathMaxZ(history[p[2]].gcode)}

IsPrefix(s, t) == Len(s) <= Len(t) /\ s = SubSeq(t, 1, Len(s))

\* the cubes around the written voxels whose corners are not all on one side
\* of the iso value
CubesCrossing ==
    {c \in {cubes_in_order(grid)[k] : k \in 1..Len(cubes_in_order(grid))} :
        \E i, j \in 0..7 : (corner_value(grid, c, i) < opts.iso_value)
                            # (corner_value(grid, c, j) < opts.iso_value)}

\* triangle k of mesh m has its three vertices on edges of cube c
TriangleInCube(m, k, c) ==
    \A n \in {3 * k - 2, 3 * k - 1, 3 * k} :
        GridEdge(m.vertices[m.indices[n] + 1].c0, m.vertices[m.indices[n] + 1].c1)
            \in CubeEdges(c)

\* the partial mesh is the unrestricted mesh up to the first skipped cube:
\* its triangles are those of cubes with the lowest corner at or below the
\* cut, the others are triangles of skipped cubes
PartialIsUnskippedPart(full, part, cut) ==
    /\ IsPrefix(part.vertices, full.vertices)
    /\ IsPrefix(part.indices, full.indices)
    /\ \A k \in 1..triangle_count(full) :
          \E c \in CubesCrossing :
              /\ TriangleInCube(full, k, c)
              /\ (k <= triangle_count(part)) <=> (CornerZ(c) <= cut)

\* C12 as claimed: a build cut below the toolpath's maximum Z emits the
\* triangles of the unrestricted build for the cubes not skipped, and strictly
\* fewer triangles than the unrestricted build
C12_PartialStrictlyFewer ==
    \A p \in PartialPairs :
        /\ PartialIsUnskippedPart(history[p[1]].mesh, history[p[2]].mesh,
                                  history[p[2]].options.max_z_height)
        /\ triangle_count(history[p[2]].mesh) < triangle_count(history[p[1]].mesh)

\* C12 amended: a build cut below the toolpath's maximum Z emits the
\* triangles of the unrestricted build for the cubes not skipped, hence at
\* most as many triangles, and strictly fewer exactly when the surface
\* crosses a skipped cube
C12_PartialIsPrefix ==
    \A p \in PartialPairs :
        /\ PartialIsUnskippedPart(history[p[1]].mesh, history[p[2]].mesh,
                                  history[p[2]].options.max_z_height)
        /\ triangle_count(history[p[2]].mesh) <= triangle_count(history[p[1]].mesh)
        /\ (triangle_count(history[p[2]].mesh) < triangle_count(history[p[1]].mesh))
              <=> (\E c \in CubesCrossing : CornerZ(c) > history[p[2]].options.max_z_height)

\* C12 witness: a cut through the wall left some of its triangles, not all
C12_Witness ==
    \E p \in PartialPairs :
        /\ triangle_count(history[p[2]].mesh) > 0
        /\ triangle_count(history[p[2]].mesh) < triangle_count(history[p[1]].mesh)

(***************************************************************************)
(* Claims on builds with nothing to rasterize                              *)
(***************************************************************************)
\* the last call of the run
LastCall == history[Len(history)]

\* no segment of the toolpath is to be rasterized: there is none, or each is
\* a travel move or has a label the filter drops
NothingToRasterize(gcode) ==
    \A i \in 1..Len(flatten_layers(gcode.layers, 1)) :
        ~AmendedToRasterize(flatten_layers(gcode.layers, 1)[i])

\* C13: a build of a toolpath without segments, or with travel moves and
\* filtered segments only, returns without error the empty mesh (no
\* vertices, normals, indices), and the grid it extracted from holds the
\* far-outside value in every one of its resolution^3 cells
C13_NothingToRasterizeEmptyMesh ==
    (ret.op = "build" /\ NothingToRasterize(LastCall.gcode)) =>
        /\ ~LastCall.threw
        /\ ~fault
        /\ mesh = NoMesh
        /\ LastCall.mesh = NoMesh
        /\ Len(mesh.vertices) = 0 /\ Len(mesh.normals) = 0 /\ Len(mesh.indices) = 0
        /\ grid.fillv = FLT_MAX
        /\ DOMAIN grid.data = {}
        /\ grid.resolution = opts.grid_resolution

\* C13 witness: builds of a toolpath of infill, support and travel moves and
\* of a toolpath without segments returned
C13_Witness ==
    /\ ret.op = "build"
    /\ Len(history) = 2
    /\ history[1].gcode = NoSegments /\ ~history[1].threw
    /\ history[2].gcode = AllFiltered
    /\ mesh = NoMesh

(***************************************************************************)
(* Claims on the statistics                                                *)
(***************************************************************************)
ExtrudingSegments(gcode) ==
    {i \in 1..Len(flatten_layers(gcode.layers, 1)) :
        flatten_layers(gcode.layers, 1)[i].is_extrusion}

\* C14: after a build of a toolpath with extruding segments the statistics
\* of the builder hold the number of segments filtered out and the number
\* processed; for the two extruding segments "Internal infill" and "Outer
\* wall" they hold one filtered and one processed segment
C14_StatsReportFilterCounts ==
    (ret.op = "build" /\ ExtrudingSegments(LastCall.gcode) # {}) =>
        /\ {"segments_filtered", "segments_processed"} \subseteq DOMAIN ret.stats
        /\ ret.stats.segments_processed
              = Cardinality({i \in ExtrudingSegments(LastCall.gcode) :
                                AmendedToRasterize(flatten_layers(LastCall.gcode.layers, 1)[i])})
        /\ ret.stats.segments_filtered
              = Cardinality({i \in ExtrudingSegments(LastCall.gcode) :
                                ~AmendedToRasterize(flatten_layers(LastCall.gcode.layers, 1)[i])})
        /\ LastCall.gcode = ScenarioB =>
              ret.stats.segments_filtered = 1 /\ ret.stats.segments_processed = 1

\* C15 as claimed: after a build in which no segment survives the filter
\* the statistics are zeroed: segment, vertex and triangle counts are 0
C15_StatsZeroed ==
    (ret.op = "build" /\ NothingToRasterize(LastCall.gcode)) =>
        /\ ret.stats.input_segments = 0
        /\ ret.stats.output_vertices = 0
        /\ ret.stats.output_triangles = 0

\* C15 amended: after a build in which no segment survives the filter the
\* output statistics are zero (vertex count, triangle count, mesh bytes),
\* whatever they were before, while input_segments is the number of segments
\* of the toolpath, filtered ones and travel moves included
C15_OutputStatsZeroed ==
    (ret.op = "build" /\ NothingToRasterize(LastCall.gcode)) =>
        /\ ret.stats = stats_[LastCall.builder]
        /\ ret.stats.output_vertices = 0
        /\ ret.stats.output_triangles = 0
        /\ ret.stats.output_mesh_bytes = 0
        /\ ret.stats.input_segments = Len(flatten_layers(LastCall.gcode.layers, 1))

\* C15 witness: a builder whose last build gave a mesh built a toolpath of
\* three segments, none of them rasterized
C15_Witness ==
    /\ ret.op = "build"
    /\ Len(history) = 2
    /\ history[1].builder = history[2].builder
    /\ history[1].stats.output_triangles > 0
    /\ history[2].gcode = AllFiltered
    /\ ret.stats.input_segments = 3
    /\ ret.stats.output_triangles = 0

\* the grid edges with one end below the iso value of the build and one not,
\* among the edges of the cubes the build does not skip
EdgesCrossedInBuild ==
    {e \in UNION {CubeEdges(c) : c \in {d \in CubesCrossing : CornerZ(d) <= opts.max_z_height}} :
        \E p, q \in e : /\ get(grid, p[1], p[2], p[3]) < opts.iso_value
                        /\ ~(get(grid, q[1], q[2], q[3]) < opts.iso_value)}

\* C16: after build() returned mesh M, last_stats() describes that call:
\* output_vertices is the number of vertices of M, output_triangles a third
\* of its number of indices, input_segments the number of segments of all
\* layers, voxel_grid_bytes resolution^3 floats of 4 bytes for the clamped
\* resolution, output_mesh_bytes M.memory_usage(); and the stages ran in the
\* order clamp, allocate, rasterize, extract: the grid has the clamped
\* resolution, it was written exactly when a segment passed the filter, and
\* M has one vertex on each crossed edge of the rasterized grid
C16_StatsDescribeCall ==
    ret.op = "build" =>
        /\ LastCall.mesh = mesh /\ LastCall.stats = ret.stats
        /\ stats_[LastCall.builder] = ret.stats
        /\ ret.stats.output_vertices = Len(mesh.vertices)
        /\ 3 * ret.stats.output_triangles = Len(mesh.indices)
        /\ ret.stats.input_segments = Len(flatten_layers(LastCall.gcode.layers, 1))
        /\ ret.stats.voxel_grid_bytes.element_bytes = 4
        /\ \E n \in {std_clamp(ret.options.grid_resolution, MinResolution, MaxResolution)} :
              /\ ret.stats.voxel_grid_bytes.elements = n * n * n
              /\ grid.resolution = n
        /\ ret.stats.output_mesh_bytes
              = 12 * Len(mesh.vertices) + 12 * Len(mesh.normals) + 4 * Len(mesh.indices)
        /\ opts = validate(ret.options)
        /\ grid.bounds = LastCall.gcode.global_bounding_box
        /\ (DOMAIN grid.data = {}) <=> NothingToRasterize(LastCall.gcode)
        /\ {VertexEdge(i) : i \in 1..Len(mesh.vertices)} = EdgesCrossedInBuild

\* C16 witness: a build asked for 4096^3 voxels returned a mesh with a
\* triangle, and the statistics show 1024^3 voxels and three input segments
C16_Witness ==
    /\ ret.op = "build"
    /\ ret.options.grid_resolution = 4096
    /\ ret.stats.voxel_grid_bytes.elements = MaxResolution * MaxResolution * MaxResolution
    /\ ret.stats.input_segments = 3
    /\ ret.stats.output_triangles > 0
    /\ ret.stats.output_vertices = 3 * ret.stats.output_triangles

(***************************************************************************)
(* Claims on repeated builds                                               *)
(***************************************************************************)
\* C17: the mesh build() returns is a function of the toolpath and the
\* options only: two returned builds of a run with equal toolpath and equal
\* options, on one builder or on two, as first or as later call, whatever the
\* uninitialized memory of the builders and of the calls held, gave the same
\* vertex, normal and index arrays, hence the same counts
C17_BuildDeterministic ==
    \A i, j \in Calls :
        (/\ ~history[i].threw /\ ~history[j].threw
         /\ history[i].gcode = history[j].gcode
         /\ history[i].options = history[j].options)
        => /\ history[i].mesh.vertices = history[j].mesh.vertices
           /\ history[i].mesh.normals = history[j].mesh.normals
           /\ history[i].mesh.indices = history[j].mesh.indices
           /\ history[i].stats.output_vertices = history[j].stats.output_vertices
           /\ history[i].stats.output_triangles = history[j].stats.output_triangles

\* C17 witness: the same toolpath built with the same options on two builders
\* gave the same non-empty mesh
C17_Witness ==
    /\ Len(history) = 2
    /\ history[1].builder # history[2].builder
    /\ history[1].gcode = WallColumn /\ history[2].gcode = WallColumn
    /\ history[1].options = history[2].options
    /\ ~history[1].threw /\ ~history[2].threw
    /\ Len(history[2].mesh.indices) > 0
    /\ history[1].mesh = history[2].mesh

\* C18: when the allocation of the grid fails, build() ends with the
\* exception (the caller gets std::bad_alloc and no mesh), and the statistics
\* of every builder, the one called included, are what they were before the
\* call: last_stats() still describes the previous build
C18_AllocationFailureSurfaces ==
    [][ret'.op = "bad_alloc" =>
            /\ history'[Len(history')].threw
            /\ mesh' = NoMesh
            /\ history'[Len(history')].mesh = NoMesh
            /\ stats_' = stats_
            /\ ret'.stats = stats_[history'[Len(history')].builder]
            /\ grid' = grid /\ fault' = fault]_vars

\* C18 witness: a build on a builder that had built a mesh before failed to
\* allocate, and last_stats() is still the statistics of that first build
C18_Witness ==
    /\ ret.op = "bad_alloc"
    /\ Len(history) = 2
    /\ ~history[1].threw /\ history[2].threw
    /\ history[1].builder = history[2].builder
    /\ history[1].gcode = WallColumn /\ history[2].gcode = ScenarioB
    /\ history[1].stats.output_triangles > 0
    /\ stats_[history[2].builder] = history[1].stats
    /\ mesh = NoMesh

(***************************************************************************)
(* PrintSelectFileSorter (src/src/ui/ui_print_select_file_sorter.cpp)      *)
(*                                                                         *)
(* sorter is the object (current_column_, current_direction_), files the   *)
(* vector apply_sort was last called on, history the sort_by calls so far. *)
(* A filename is the sequence of its character codes; filament_grams is in *)
(* grams, NaN is not modelled.                                             *)
(***************************************************************************)
SortColumn == {"FILENAME", "SIZE", "MODIFIED", "PRINT_TIME", "FILAMENT"}

SortDirection == {"ASCENDING", "DESCENDING"}

\* a plausible slip: a new column keeps the direction
sort_by_keeps_direction(s, column) ==
    IF column = s.current_column_
    THEN [s EXCEPT !.current_direction_ =
                      IF @ = "ASCENDING" THEN "DESCENDING" ELSE "ASCENDING"]
    ELSE [s EXCEPT !.current_column_ = column]

\* sort_by (lines 8-17)
sort_by(s, column) ==
    IF column = s.current_column_
    THEN [s EXCEPT !.current_direction_ =
                      IF @ = "ASCENDING" THEN "DESCENDING" ELSE "ASCENDING"]
    ELSE [current_column_ |-> column, current_direction_ |-> "ASCENDING"]

\* std::string operator<: lexicographic on the character codes
string_less(s, t) ==
    \E k \in 1..Len(t) :
        /\ \A i \in 1..(k - 1) : i <= Len(s) /\ s[i] = t[i]
        /\ (k > Len(s) \/ s[k] < t[k])

\* the switch of the comparator (lines 32-48)
key_less(a, b, sort_column) ==
    CASE sort_column = "FILENAME" -> string_less(a.filename, b.filename)
      [] sort_column = "SIZE" -> a.file_size_bytes < b.file_size_bytes
      [] sort_column = "MODIFIED" -> a.modified_timestamp < b.modified_timestamp
      [] sort_column = "PRINT_TIME" -> a.print_time_minutes < b.print_time_minutes
      [] sort_column = "FILAMENT" -> a.filament_grams < b.filament_grams

\* the comparator handed to std::sort (lines 24-55)
compare(a, b, sort_column, sort_direction) ==
    IF a.is_dir # b.is_dir THEN a.is_dir
    ELSE IF sort_direction = "DESCENDING" THEN ~key_less(a, b, sort_column)
    ELSE key_less(a, b, sort_column)

\* std::sort requires a strict weak ordering.  The comparator is one on the
\* entries of v unless two entries come before each other, which is the case
\* of two entries of one kind with equal keys under DESCENDING.  (It is also
\* true of an entry and itself under DESCENDING; no implementation compares
\* an entry with itself, and the model leaves that case aside.)
strict_weak_on(v, sort_column, sort_direction) ==
    \A i, j \in 1..Len(v) :
        i # j => ~(/\ compare(v[i], v[j], sort_column, sort_direction)
                   /\ compare(v[j], v[i], sort_column, sort_direction))

Rearrangements(n) == {p \in [1..n -> 1..n] : \A i, j \in 1..n : p[i] = p[j] => i = j}

\* apply_sort (lines 19-56), the outcomes of std::sort on v.  With a strict
\* weak ordering: a permutation of v in which no entry comes before an
\* earlier one (std::sort is not stable, entries equal in the ordering end in
\* any order).  Without one the behaviour is undefined: the vector ends in any
\* arrangement of entries, moved-from or duplicated ones included, and the
\* sort may read and write beyond the vector (out_of_range).
apply_sort(s, v) ==
    IF strict_weak_on(v, s.current_column_, s.current_direction_)
    THEN {[files |-> [i \in 1..Len(v) |-> v[p[i]]], out_of_range |-> FALSE] :
             p \in {q \in Rearrangements(Len(v)) :
                       \A i, j \in 1..Len(v) :
                           i < j => ~compare(v[q[j]], v[q[i]],
                                             s.current_column_, s.current_direction_)}}
    ELSE {[files |-> w, out_of_range |-> o] :
             w \in [1..Len(v) -> {v[i] : i \in 1..Len(v)}], o \in BOOLEAN}

(***************************************************************************)
(* Specification SpecSorter: sort_by and apply_sort on one sorter          *)
(***************************************************************************)
\* the number of sort_by calls of a run
MaxSortCalls == 3

\* the length of a file list
MaxFiles == 2

PrintFileData(filename, size, modified, print_time, filament, is_dir) ==
    [filename |-> filename, file_size_bytes |-> size, modified_timestamp |-> modified,
     print_time_minutes |-> print_time, filament_grams |-> filament, is_dir |-> is_dir]

\* two directories as the tests make them (all keys 0 but the name) and three
\* files, some of them equal in size, date, print time or filament
FileSamples ==
    { PrintFileData(<<98>>, 0, 0, 0, 0, TRUE),
      PrintFileData(<<97>>, 0, 0, 0, 0, TRUE),
      PrintFileData(<<98>>, 1000, 100, 60, 10, FALSE),
      PrintFileData(<<97>>, 1000, 200, 60, 20, FALSE),
      PrintFileData(<<97, 97>>, 2000, 100, 120, 20, FALSE) }

\* the lists of different entries, in every order
FileLists ==
    {v \in UNION {[1..n -> FileSamples] : n \in 0..MaxFiles} :
        \A i, j \in 1..Len(v) : v[i] = v[j] => i = j}

InitSorter ==
    /\ grid = DenseVoxelGrid(GridRes, TestBounds)
    /\ sparse = NoSparse
    /\ mesh = NoMesh
    /\ opts = DefaultOptions
    /\ ret = [op |-> "none"]
    /\ fault = FALSE
    /\ nwrites = 0
    /\ stats_ = <<>>
    /\ history = <<>>
    /\ sorter = PrintSelectFileSorter
    /\ files = <<>>
    /\ capabilities_ = <<>>
    /\ reloader = <<>>
    /\ disk = <<>>
    /\ heap = <<>>

SortBy(column) ==
    /\ Len(history) < MaxSortCalls
    /\ sorter' = sort_by(sorter, column)
    /\ history' = Append(history, column)
    /\ ret' = [op |-> "sort_by", column |-> column]
    /\ UNCHANGED <<grid, sparse, mesh, opts, fault, nwrites, stats_, files, capabilities_, reloader, disk, heap>>

\* apply_sort(v): files is v after the call, fault an access beyond it
ApplySort(v) ==
    /\ \E r \in apply_sort(sorter, v) :
          /\ files' = r.files
          /\ fault' = r.out_of_range
    /\ ret' = [op |-> "apply_sort", input |-> v]
    /\ UNCHANGED <<grid, sparse, mesh, opts, nwrites, stats_, history, sorter, capabilities_, reloader, disk, heap>>

NextSorter ==
    \/ \E column \in SortColumn : SortBy(column)
    \/ \E v \in FileLists : ApplySort(v)

SpecSorter == InitSorter /\ [][NextSorter]_vars

(***************************************************************************)
(* Claims on the sorter                                                    *)
(***************************************************************************)
\* the length of the run of equal entries at the end of the sequence h
TrailingRun(h) ==
    IF h = <<>> THEN 0
    ELSE Len(h) + 1 - SetMin({k \in 1..Len(h) : \A i \in k..Len(h) : h[i] = h[Len(h)]})

\* C19: sort_by(c) flips the direction and keeps the column when c is the
\* current column, and otherwise sets column c with direction ASCENDING; the
\* sorter starts as (MODIFIED, DESCENDING), and after any sort_by calls the
\* column is the last one passed and the direction is ASCENDING exactly when
\* the run of calls with that column at the end of the calls has odd length
C19_SortByToggles ==
    /\ [][ret'.op = "sort_by" =>
             IF ret'.column = sorter.current_column_
             THEN /\ sorter'.current_column_ = sorter.current_column_
                  /\ sorter'.current_direction_ # sorter.current_direction_
                  /\ sorter'.current_direction_ \in SortDirection
             ELSE /\ sorter'.current_column_ = ret'.column
                  /\ sorter'.current_direction_ = "ASCENDING"]_vars
    /\ [](IF history = <<>>
          THEN sorter.current_column_ = "MODIFIED" /\ sorter.current_direction_ = "DESCENDING"
          ELSE /\ sorter.current_column_ = history[Len(history)]
               /\ (sorter.current_direction_ = "ASCENDING") <=> (TrailingRun(history) % 2 = 1))

\* C19 witness: three calls with the same column after a call with another
C19_Witness ==
    /\ history = <<"MODIFIED", "SIZE", "SIZE">>
    /\ sorter.current_column_ = "SIZE"
    /\ sorter.current_direction_ = "DESCENDING"
    /\ ret.op = "sort_by"

IsPermutationOf(v, w) ==
    /\ Len(v) = Len(w)
    /\ \E p \in Rearrangements(Len(v)) : \A i \in 1..Len(v) : v[i] = w[p[i]]

\* C20: after apply_sort the list is a permutation of the input, every
\* directory precedes every file, and within the directories and within the
\* files the keys of the selected column are non-decreasing under ASCENDING
\* and non-increasing under DESCENDING, for every column, direction and list
C20_SortedDirectoriesFirst ==
    ret.op = "apply_sort" =>
        /\ ~fault
        /\ IsPermutationOf(files, ret.input)
        /\ \A i, j \in 1..Len(files) :
              i < j =>
                 /\ files[j].is_dir => files[i].is_dir
                 /\ (files[i].is_dir = files[j].is_dir) =>
                       IF sorter.current_direction_ = "ASCENDING"
                       THEN ~key_less(files[j], files[i], sorter.current_column_)
                       ELSE ~key_less(files[i], files[j], sorter.current_column_)

(***************************************************************************)
(* CapabilityMatrix (src/include/capability_matrix.h)                      *)
(***************************************************************************)
\* the variables of the reconstruction engine and of the sorter, which the
\* operations of the other classes leave alone
engineVars == <<grid, sparse, mesh, opts, nwrites, stats_, sorter, files>>

EngineIdle ==
    /\ grid = DenseVoxelGrid(GridRes, TestBounds)
    /\ sparse = NoSparse
    /\ mesh = NoMesh
    /\ opts = DefaultOptions
    /\ nwrites = 0
    /\ stats_ = <<>>
    /\ sorter = PrintSelectFileSorter
    /\ files = <<>>

CapabilityOrigin == {"DATABASE", "MACRO_ANALYSIS", "FILE_SCAN"}

\* an origin_priority that ranks every origin alike
origin_priority_unranked(origin) == 0

\* origin_priority (lines 351-362)
origin_priority(origin) ==
    CASE origin = "DATABASE" -> 0
      [] origin = "MACRO_ANALYSIS" -> 1
      [] origin = "FILE_SCAN" -> 2
      [] OTHER -> 99

\* category_from_key (lines 364-393)
category_from_key(key) ==
    CASE key = "bed_mesh" -> "BED_MESH"
      [] key = "qgl" -> "QGL"
      [] key = "z_tilt" -> "Z_TILT"
      [] key = "bed_level" -> "BED_LEVEL"
      [] key = "nozzle_clean" -> "NOZZLE_CLEAN"
      [] key = "purge_line" -> "PURGE_LINE"
      [] key = "homing" -> "HOMING"
      [] key = "chamber_soak" -> "CHAMBER_SOAK"
      [] key = "skew_correct" -> "SKEW_CORRECT"
      [] OTHER -> "UNKNOWN"

\* the parameter names of the model; those of OptInNames begin with FORCE_,
\* PERFORM_, DO_ or ENABLE_
ParamNames == {"", "FORCE_LEVELING", "SKIP_BED_MESH"}
OptInNames == {"FORCE_LEVELING"}

\* infer_semantic (lines 395-403): OPT_IN for a name with one of the four
\* prefixes, OPT_OUT for every other name
infer_semantic(param_name) == IF param_name \in OptInNames THEN "OPT_IN" ELSE "OPT_OUT"

CapabilitySource(origin, param_name, skip_value, enable_value, semantic, line_number) ==
    [origin |-> origin, param_name |-> param_name, skip_value |-> skip_value,
     enable_value |-> enable_value, semantic |-> semantic, line_number |-> line_number]

\* add_source (lines 347-349): capabilities_[op].push_back(source), on the
\* map c; operator[] inserts an empty vector for an absent key
add_source(c, op, source) ==
    IF op \in DOMAIN c
    THEN [c EXCEPT ![op] = Append(@, source)]
    ELSE [k \in DOMAIN c \cup {op} |-> IF k = op THEN <<source>> ELSE c[k]]

\* the <op, source> pairs one add_from_database call adds (lines 202-223):
\* caps is the params map, key -> [param, skip_value, enable_value]; the
\* entries of an unknown key or with an empty param are skipped.  Different
\* known keys have different categories, so the order in which the map is
\* walked does not show in any vector.
database_sources(caps) ==
    {<<category_from_key(key),
       CapabilitySource("DATABASE", caps[key].param, caps[key].skip_value,
                        caps[key].enable_value, infer_semantic(caps[key].param), 0)>> :
        key \in {k \in DOMAIN caps : category_from_key(k) # "UNKNOWN" /\ caps[k].param # ""}}

\* the source add_from_macro_analysis makes of one operation (lines 232-248)
macro_source(op) ==
    IF op.param_semantic = "OPT_OUT"
    THEN CapabilitySource("MACRO_ANALYSIS", op.skip_param_name, "1", "0", op.param_semantic, 0)
    ELSE CapabilitySource("MACRO_ANALYSIS", op.skip_param_name, "0", "1", op.param_semantic, 0)

\* the source add_from_file_scan makes of one operation (lines 258-285)
file_source(op) ==
    IF op.embedding = "MACRO_PARAMETER"
    THEN IF infer_semantic(op.param_name) = "OPT_OUT"
         THEN CapabilitySource("FILE_SCAN", op.param_name, "1", "0", "OPT_OUT", op.line_number)
         ELSE CapabilitySource("FILE_SCAN", op.param_name, "0", "1", "OPT_IN", op.line_number)
    ELSE CapabilitySource("FILE_SCAN", "", "", "", "OPT_OUT", op.line_number)

\* the <op, source> pairs of the loops of add_from_macro_analysis (lines
\* 226-250) and add_from_file_scan (lines 252-288), in the order of the calls
\* of add_source
RECURSIVE macro_sources(_)
macro_sources(operations) ==
    IF operations = <<>> THEN <<>>
    ELSE (IF ~Head(operations).has_skip_param THEN <<>>
          ELSE <<<<Head(operations).category, macro_source(Head(operations))>>>>)
         \o macro_sources(Tail(operations))

RECURSIVE file_sources(_)
file_sources(operations) ==
    IF operations = <<>> THEN <<>>
    ELSE (IF Head(operations).embedding = "NOT_FOUND" THEN <<>>
          ELSE <<<<Head(operations).type, file_source(Head(operations))>>>>)
         \o file_sources(Tail(operations))

\* the map after the add_source calls of the sequence added
RECURSIVE add_sources(_, _)
add_sources(c, added) ==
    IF added = <<>> THEN c
    ELSE add_sources(add_source(c, Head(added)[1], Head(added)[2]), Tail(added))

\* get_all_sources (lines 304-317), the vectors the call can return: a copy
\* of the vector of op, sorted by std::sort on origin_priority.  The
\* comparison is a strict weak ordering; std::sort is not stable, so sources
\* of one origin come in any order.
get_all_sources(c, op) ==
    IF op \notin DOMAIN c THEN {<<>>}
    ELSE LET v == c[op]
         IN  {[i \in 1..Len(v) |-> v[p[i]]] : p \in
                {q \in Rearrangements(Len(v)) :
                    \A i, j \in 1..Len(v) :
                        i < j => ~(origin_priority(v[q[j]].origin) < origin_priority(v[q[i]].origin))}}

\* get_best_source (lines 295-302), on the vector get_all_sources returned
get_best_source(sources) == IF sources = <<>> THEN "nullopt" ELSE sources[1]

\* number of sources added between two clear() calls
MaxSources == 3

OperationSamples == {"BED_MESH", "QGL"}

\* PrintStartCapabilities::params samples: an unknown key, an empty param
DatabaseSamples ==
    {[k \in {"bed_mesh"} |-> [param |-> "FORCE_LEVELING", skip_value |-> "0", enable_value |-> "1"]],
     [k \in {"bed_mesh", "qgl"} |-> [param |-> "SKIP_BED_MESH", skip_value |-> "1", enable_value |-> "0"]],
     [k \in {"qgl", "bogus"} |->
         [param |-> IF k = "qgl" THEN "" ELSE "SKIP_BED_MESH", skip_value |-> "1", enable_value |-> "0"]]}

\* PrintStartAnalysis::operations samples
MacroSamples ==
    {<<>>,
     <<[category |-> "BED_MESH", has_skip_param |-> TRUE, skip_param_name |-> "SKIP_BED_MESH",
        param_semantic |-> "OPT_OUT"]>>,
     <<[category |-> "BED_MESH", has_skip_param |-> FALSE, skip_param_name |-> "",
        param_semantic |-> "OPT_OUT"],
       [category |-> "QGL", has_skip_param |-> TRUE, skip_param_name |-> "FORCE_LEVELING",
        param_semantic |-> "OPT_IN"]>>}

\* gcode::ScanResult::operations samples
ScanSamples ==
    {<<[type |-> "BED_MESH", embedding |-> "DIRECT_COMMAND", param_name |-> "", line_number |-> 1]>>,
     <<[type |-> "BED_MESH", embedding |-> "MACRO_PARAMETER", param_name |-> "FORCE_LEVELING",
        line_number |-> 2],
       [type |-> "BED_MESH", embedding |-> "DIRECT_COMMAND", param_name |-> "", line_number |-> 3]>>,
     <<[type |-> "QGL", embedding |-> "NOT_FOUND", param_name |-> "", line_number |-> 0],
       [type |-> "QGL", embedding |-> "MACRO_PARAMETER", param_name |-> "SKIP_BED_MESH",
        line_number |-> 4]>>}

\* a set as a sequence, in some order
RECURSIVE SeqOfSet(_)
SeqOfSet(S) == IF S = {} THEN <<>> ELSE LET x == CHOOSE x \in S : TRUE IN <<x>> \o SeqOfSet(S \ {x})

\* history holds the <op, source> pairs added since the last clear()
InitMatrix ==
    /\ EngineIdle
    /\ ret = [op |-> "none"]
    /\ fault = FALSE
    /\ history = <<>>
    /\ capabilities_ = <<>>
    /\ reloader = <<>>
    /\ disk = <<>>
    /\ heap = <<>>

AddSources(name, added) ==
    /\ Len(history) + Len(added) <= MaxSources
    /\ capabilities_' = add_sources(capabilities_, added)
    /\ history' = history \o added
    /\ ret' = [op |-> name]
    /\ UNCHANGED <<engineVars, fault, reloader, disk, heap>>

AddFromDatabase(caps) == AddSources("add_from_database", SeqOfSet(database_sources(caps)))

AddFromMacroAnalysis(analysis) == AddSources("add_from_macro_analysis", macro_sources(analysis))

AddFromFileScan(scan) == AddSources("add_from_file_scan", file_sources(scan))

\* clear (lines 343-345)
Clear ==
    /\ capabilities_' = <<>>
    /\ history' = <<>>
    /\ ret' = [op |-> "clear"]
    /\ UNCHANGED <<engineVars, fault, reloader, disk, heap>>

GetAllSources(op) ==
    /\ \E sources \in get_all_sources(capabilities_, op) :
          ret' = [op |-> "get_all_sources", category |-> op, sources |-> sources]
    /\ UNCHANGED <<engineVars, fault, history, capabilities_, reloader, disk, heap>>

GetBestSource(op) ==
    /\ \E sources \in get_all_sources(capabilities_, op) :
          ret' = [op |-> "get_best_source", category |-> op, best |-> get_best_source(sources)]
    /\ UNCHANGED <<engineVars, fault, history, capabilities_, reloader, disk, heap>>

NextMatrix ==
    \/ \E caps \in DatabaseSamples : AddFromDatabase(caps)
    \/ \E analysis \in MacroSamples : AddFromMacroAnalysis(analysis)
    \/ \E scan \in ScanSamples : AddFromFileScan(scan)
    \/ Clear
    \/ \E op \in OperationSamples : GetAllSources(op)
    \/ \E op \in OperationSamples : GetBestSource(op)

SpecMatrix == InitMatrix /\ [][NextMatrix]_vars

(***************************************************************************)
(* Claims on the capability matrix                                         *)
(***************************************************************************)
\* the sources added for op since the last clear(), in the order added
RECURSIVE AddedFor(_, _)
AddedFor(h, op) ==
    IF h = <<>> THEN <<>>
    ELSE (IF Head(h)[1] = op THEN <<Head(h)[2]>> ELSE <<>>) \o AddedFor(Tail(h), op)

\* C21: get_all_sources(op) returns exactly the sources added for op since
\* the last clear() (each as often as added), DATABASE before MACRO_ANALYSIS
\* before FILE_SCAN, and get_best_source(op) is one of the added sources of
\* the highest-priority origin present for op, nullopt when op has none
C21_SourcesByPriority ==
    /\ ret.op = "get_all_sources" =>
          /\ IsPermutationOf(ret.sources, AddedFor(history, ret.category))
          /\ \A i, j \in 1..Len(ret.sources) :
                i < j => ~(/\ ret.sources[j].origin = "DATABASE"
                           /\ ret.sources[i].origin # "DATABASE")
                      /\ ~(/\ ret.sources[j].origin = "MACRO_ANALYSIS"
                           /\ ret.sources[i].origin = "FILE_SCAN")
    /\ ret.op = "get_best_source" =>
          LET added == AddedFor(history, ret.category)
              present == {added[i].origin : i \in 1..Len(added)}
          IN  IF added = <<>> THEN ret.best = "nullopt"
              ELSE /\ \E i \in 1..Len(added) : added[i] = ret.best
                   /\ ret.best.origin =
                         IF "DATABASE" \in present THEN "DATABASE"
                         ELSE IF "MACRO_ANALYSIS" \in present THEN "MACRO_ANALYSIS"
                         ELSE "FILE_SCAN"

\* C21 witness: sources of the three origins added for one operation, the
\* file scan first and the database last, and returned in priority order
C21_Witness ==
    /\ ret.op = "get_all_sources"
    /\ Len(ret.sources) = 3
    /\ history[1][1] = ret.category /\ history[1][2].origin = "FILE_SCAN"
    /\ history[3][1] = ret.category /\ history[3][2].origin = "DATABASE"
    /\ ret.sources[1].origin = "DATABASE"
    /\ ret.sources[2].origin = "MACRO_ANALYSIS"
    /\ ret.sources[3].origin = "FILE_SCAN"

(***************************************************************************)
(* XmlHotReloader (src/include/xml_hot_reloader.h,                         *)
(* src/src/application/xml_hot_reloader.cpp)                               *)
(*                                                                         *)
(* A path is a record [dir, stem, extension]; absolute(p) and the LVGL     *)
(* path "A:" + p wrap it.  disk maps the paths of the model to their       *)
(* modification time, or to 0 when the file does not exist.  reloader     *)
(* holds the members of the object (poll_thread_ is the index in threads   *)
(* of the joinable thread, 0 when it is not joinable) and, besides,        *)
(* threads: the position of every thread the object has started, caller:   *)
(* the position of the thread that uses the object, calls: the number of   *)
(* calls it has made.                                                      *)
(***************************************************************************)
\* number of calls of the using thread
MaxCalls == 4
\* modification times are 1..MaxMtime
MaxMtime == 2

Directories == {"ui_xml", "ui_xml/components"}

XmlFiles ==
    {[dir |-> "ui_xml", stem |-> "home_panel", extension |-> ".xml"],
     [dir |-> "ui_xml/components", stem |-> "home_panel", extension |-> ".xml"]}

OtherFiles == {[dir |-> "ui_xml", stem |-> "notes", extension |-> ".txt"]}

absolute(p) == [root |-> "/cwd", rel |-> p]

\* "A:" + rel_path (line 71)
lvgl_path_of(p) == [drive |-> "A:", rel |-> p]

\* component_name_from_path (lines 142-145): path.stem()
component_name_from_path(path) == path.rel.stem

\* the object as constructed (xml_hot_reloader.h, lines 92-103)
XmlHotReloader ==
    [running_ |-> FALSE, poll_interval_ms_ |-> 500, file_mtimes_ |-> <<>>,
     file_to_lvgl_path_ |-> <<>>, reload_callback_ |-> FALSE, poll_thread_ |-> 0,
     threads |-> <<>>, caller |-> "idle", calls |-> 0]

\* initial_scan (lines 46-77) on the disk d: the regular files with
\* extension .xml directly in the directories of xml_dirs that exist
initial_scan(r, d, xml_dirs) ==
    LET tracked == {f \in DOMAIN d :
                       /\ d[f] # 0
                       /\ f.extension = ".xml"
                       /\ \E i \in 1..Len(xml_dirs) : xml_dirs[i] = f.dir /\ f.dir \in Directories}
        keys == {absolute(f) : f \in tracked}
    IN  [r EXCEPT !.file_mtimes_ = [a \in keys |-> d[a.rel]],
                  !.file_to_lvgl_path_ = [a \in keys |-> lvgl_path_of(a.rel)]]

\* scan_and_reload that forgets to cache the new time
RECURSIVE scan_and_reload_uncached(_, _, _)
scan_and_reload_uncached(r, d, order) ==
    IF order = <<>> THEN [reloader |-> r, reloads |-> <<>>]
    ELSE LET abs_path == Head(order)
             rest == scan_and_reload_uncached(r, d, Tail(order))
         IN  IF d[abs_path.rel] = 0 \/ d[abs_path.rel] = r.file_mtimes_[abs_path]
             THEN rest
             ELSE [rest EXCEPT !.reloads =
                      <<[name |-> component_name_from_path(abs_path),
                         path |-> r.file_to_lvgl_path_[abs_path]]>> \o @]

\* scan_and_reload (lines 88-140) on the disk d, the map walked in the given
\* order: the object after the call and the reloads made, in order (the
\* callback when one is set, else the reload queued for the main thread)
RECURSIVE scan_and_reload(_, _, _)
scan_and_reload(r, d, order) ==
    IF order = <<>> THEN [reloader |-> r, reloads |-> <<>>]
    ELSE LET abs_path == Head(order)
             current_mtime == d[abs_path.rel]
         IN  IF current_mtime = 0 \/ current_mtime = r.file_mtimes_[abs_path]
             THEN scan_and_reload(r, d, Tail(order))
             ELSE LET rest == scan_and_reload([r EXCEPT !.file_mtimes_[abs_path] = current_mtime],
                                              d, Tail(order))
                  IN  [rest EXCEPT !.reloads =
                          <<[name |-> component_name_from_path(abs_path),
                             path |-> r.file_to_lvgl_path_[abs_path]]>> \o @]

\* the orders in which an unordered_map with the keys S can be walked
WalkOrders(S) ==
    {o \in [1..Cardinality(S) -> S] : \A i, j \in 1..Cardinality(S) : o[i] = o[j] => i = j}

LiveThreads(r) == {t \in 1..Len(r.threads) : r.threads[t] # "exited"}

InitReloader ==
    /\ EngineIdle
    /\ ret = [op |-> "none"]
    /\ fault = FALSE
    /\ history = <<>>
    /\ capabilities_ = <<>>
    /\ reloader = XmlHotReloader
    /\ disk \in [XmlFiles \cup OtherFiles -> {0, 1}]
    /\ \A f \in OtherFiles : disk[f] = 1
    /\ heap = <<>>

\* a start that does not look at running_
StartUnguarded(xml_dirs, poll_interval_ms) ==
    /\ reloader.caller = "idle"
    /\ reloader.calls < MaxCalls
    /\ reloader' =
          [initial_scan([reloader EXCEPT !.poll_interval_ms_ = poll_interval_ms], disk, xml_dirs)
             EXCEPT !.running_ = TRUE,
                    !.threads = Append(@, "while"),
                    !.poll_thread_ = Len(reloader.threads) + 1,
                    !.calls = @ + 1]
    /\ ret' = [op |-> "start", ignored |-> FALSE, xml_dirs |-> xml_dirs]
    /\ fault' = (fault \/ reloader.poll_thread_ # 0)
    /\ UNCHANGED <<engineVars, history, capabilities_, disk, heap>>

\* start (lines 20-33); assigning a thread to a joinable poll_thread_ calls
\* std::terminate (fault)
Start(xml_dirs, poll_interval_ms) ==
    /\ reloader.caller = "idle"
    /\ reloader.calls < MaxCalls
    /\ IF reloader.running_
       THEN /\ reloader' = [reloader EXCEPT !.calls = @ + 1]
            /\ ret' = [op |-> "start", ignored |-> TRUE, xml_dirs |-> xml_dirs]
            /\ UNCHANGED fault
       ELSE /\ reloader' =
                  [initial_scan([reloader EXCEPT !.poll_interval_ms_ = poll_interval_ms],
                                disk, xml_dirs)
                     EXCEPT !.running_ = TRUE,
                            !.threads = Append(@, "while"),
                            !.poll_thread_ = Len(reloader.threads) + 1,
                            !.calls = @ + 1]
            /\ ret' = [op |-> "start", ignored |-> FALSE, xml_dirs |-> xml_dirs]
            /\ fault' = (fault \/ reloader.poll_thread_ # 0)
    /\ UNCHANGED <<engineVars, history, capabilities_, disk, heap>>

\* stop (lines 35-44) up to its return or to the join; the destructor (lines
\* 16-18) is a stop() after which the object is gone
Stop(destructor) ==
    /\ reloader.caller = "idle"
    /\ reloader.calls < MaxCalls
    /\ LET returned == IF destructor THEN "destroyed" ELSE "idle"
           name == IF destructor THEN "destructor" ELSE "stop"
       IN  IF ~reloader.running_
           THEN /\ reloader' = [reloader EXCEPT !.calls = @ + 1, !.caller = returned]
                /\ ret' = [op |-> name, joined |-> FALSE]
           ELSE IF reloader.poll_thread_ = 0
           THEN /\ reloader' = [reloader EXCEPT !.calls = @ + 1, !.caller = returned,
                                                !.running_ = FALSE]
                /\ ret' = [op |-> name, joined |-> FALSE]
           ELSE /\ reloader' = [reloader EXCEPT !.calls = @ + 1, !.running_ = FALSE,
                                                !.caller = IF destructor THEN "join_destructor"
                                                           ELSE "join_stop"]
                /\ ret' = [op |-> "join"]
    /\ UNCHANGED <<engineVars, fault, history, capabilities_, disk, heap>>

\* a stop that returns without waiting for the thread
StopReturnsEarly ==
    /\ reloader.caller \in {"join_stop", "join_destructor"}
    /\ reloader' = [reloader EXCEPT !.poll_thread_ = 0,
                                    !.caller = IF reloader.caller = "join_stop" THEN "idle"
                                               ELSE "destroyed"]
    /\ ret' = [op |-> IF reloader.caller = "join_stop" THEN "stop" ELSE "destructor",
               joined |-> TRUE]
    /\ UNCHANGED <<engineVars, fault, history, capabilities_, disk, heap>>

\* poll_thread_.join() returns (line 41) once the thread has finished
StopReturn ==
    /\ reloader.caller \in {"join_stop", "join_destructor"}
    /\ reloader.threads[reloader.poll_thread_] = "exited"
    /\ reloader' = [reloader EXCEPT !.poll_thread_ = 0,
                                    !.caller = IF reloader.caller = "join_stop" THEN "idle"
                                               ELSE "destroyed"]
    /\ ret' = [op |-> IF reloader.caller = "join_stop" THEN "stop" ELSE "destructor",
               joined |-> TRUE]
    /\ UNCHANGED <<engineVars, fault, history, capabilities_, disk, heap>>

\* set_reload_callback (xml_hot_reloader.h, lines 76-78), while no polling
\* thread reads the member
SetReloadCallback ==
    /\ reloader.caller = "idle"
    /\ reloader.calls < MaxCalls
    /\ LiveThreads(reloader) = {}
    /\ reloader' = [reloader EXCEPT !.reload_callback_ = TRUE, !.calls = @ + 1]
    /\ ret' = [op |-> "set_reload_callback"]
    /\ UNCHANGED <<engineVars, fault, history, capabilities_, disk, heap>>

\* the reloads a scan made, as the callback or the update queue saw them
Reloads(r, reloads, thread) ==
    [op |-> "scan_and_reload", thread |-> thread,
     via |-> IF r.reload_callback_ THEN "reload_callback_" ELSE "queue_update",
     reloads |-> reloads]

\* scan_and_reload called by the using thread, while no polling thread walks
\* the maps
ManualScan ==
    /\ reloader.caller = "idle"
    /\ reloader.calls < MaxCalls
    /\ LiveThreads(reloader) = {}
    /\ \E order \in WalkOrders(DOMAIN reloader.file_mtimes_) :
          \E r \in {scan_and_reload(reloader, disk, order)} :
             /\ reloader' = [r.reloader EXCEPT !.calls = @ + 1]
             /\ ret' = Reloads(reloader, r.reloads, "caller")
    /\ UNCHANGED <<engineVars, fault, history, capabilities_, disk, heap>>

\* poll_loop (lines 79-86): the loop condition
PollTest(t) ==
    /\ reloader.threads[t] = "while"
    /\ reloader' = [reloader EXCEPT !.threads[t] = IF reloader.running_ THEN "sleep_for"
                                                   ELSE "exited"]
    /\ UNCHANGED <<engineVars, ret, fault, history, capabilities_, disk, heap>>

\* poll_loop: the sleep is over, running_ is read again (lines 81-83)
PollWake(t) ==
    /\ reloader.threads[t] = "sleep_for"
    /\ reloader' = [reloader EXCEPT !.threads[t] = IF reloader.running_ THEN "scan_and_reload"
                                                   ELSE "exited"]
    /\ UNCHANGED <<engineVars, ret, fault, history, capabilities_, disk, heap>>

\* poll_loop: the scan (line 84)
PollScan(t) ==
    /\ reloader.threads[t] = "scan_and_reload"
    /\ \E order \in WalkOrders(DOMAIN reloader.file_mtimes_) :
          \E r \in {scan_and_reload(reloader, disk, order)} :
             /\ reloader' = [r.reloader EXCEPT !.threads[t] = "while"]
             /\ ret' = Reloads(reloader, r.reloads, "poll")
    /\ UNCHANGED <<engineVars, fault, history, capabilities_, disk, heap>>

\* the environment writes, creates or deletes an XML file
WriteFile(f, mtime) ==
    /\ disk[f] # mtime
    /\ disk' = [disk EXCEPT ![f] = mtime]
    /\ UNCHANGED <<engineVars, ret, fault, history, capabilities_, reloader, heap>>

DeleteFile(f) ==
    /\ disk[f] # 0
    /\ disk' = [disk EXCEPT ![f] = 0]
    /\ UNCHANGED <<engineVars, ret, fault, history, capabilities_, reloader, heap>>

StartSamples == {<<"ui_xml">>, <<"ui_xml/components", "ui_xml">>, <<"missing", "ui_xml/components">>}

PollSteps ==
    \E t \in 1..Len(reloader.threads) : PollTest(t) \/ PollWake(t) \/ PollScan(t)

NextReloader ==
    \/ \E xml_dirs \in StartSamples, poll_interval_ms \in {500, 100} : Start(xml_dirs, poll_interval_ms)
    \/ \E destructor \in BOOLEAN : Stop(destructor)
    \/ StopReturn
    \/ SetReloadCallback
    \/ ManualScan
    \/ PollSteps
    \/ \E f \in XmlFiles, mtime \in 1..MaxMtime : WriteFile(f, mtime)
    \/ \E f \in XmlFiles : DeleteFile(f)

SpecReloader == InitReloader /\ [][NextReloader]_vars

\* the polling thread is scheduled, and a join returns once its thread has
\* finished
SpecReloaderFair ==
    SpecReloader /\ WF_vars(PollSteps) /\ WF_vars(StopReturn)

(***************************************************************************)
(* Claims on the hot reloader                                              *)
(***************************************************************************)
\* a step in which a polling thread ran scan_and_reload
PollScanStep ==
    \E t \in 1..Len(reloader.threads) :
        reloader.threads[t] = "scan_and_reload" /\ reloader'.threads[t] = "while"

\* a step in which scan_and_reload ran, on either thread
ScanStep ==
    \/ PollScanStep
    \/ /\ ret'.op = "scan_and_reload"
       /\ ret'.thread = "caller"
       /\ reloader'.calls = reloader.calls + 1

C23_StartWhileRunningIgnored ==
    /\ [][(ret'.op = "start" /\ reloader'.calls = reloader.calls + 1 /\ reloader.running_) =>
             /\ reloader'.file_mtimes_ = reloader.file_mtimes_
             /\ reloader'.file_to_lvgl_path_ = reloader.file_to_lvgl_path_
             /\ reloader'.poll_interval_ms_ = reloader.poll_interval_ms_
             /\ reloader'.poll_thread_ = reloader.poll_thread_
             /\ reloader'.threads = reloader.threads
             /\ reloader'.running_]_vars
    /\ [](Cardinality(LiveThreads(reloader)) <= 1 /\ ~fault)

\* C23 witness: an ignored start() on a directory that holds an XML file
\* created since the first start(), with another poll interval
C23_Witness ==
    /\ ret.op = "start" /\ ret.ignored
    /\ reloader.poll_interval_ms_ = 100
    /\ Cardinality(LiveThreads(reloader)) = 1
    /\ \E f \in XmlFiles :
          /\ \E i \in 1..Len(ret.xml_dirs) : ret.xml_dirs[i] = f.dir
          /\ disk[f] # 0
          /\ absolute(f) \notin DOMAIN reloader.file_mtimes_

\* the tracked files a scan has to reload: readable time, not the cached one
Changed(r, d) ==
    {a \in DOMAIN r.file_mtimes_ : d[a.rel] # 0 /\ d[a.rel] # r.file_mtimes_[a]}

\* C24: a scan_and_reload makes exactly one reload for every tracked file
\* whose modification time is readable and differs from the cached one, with
\* the filename without .xml and the "A:"-prefixed path, and caches the new
\* time; it makes none for the other tracked files, deleted ones included,
\* which stay tracked; so after the scan no tracked file is left to reload
C24_OneReloadPerChange ==
    [][ScanStep =>
         /\ Len(ret'.reloads) = Cardinality(Changed(reloader, disk))
         /\ \A a \in Changed(reloader, disk) :
               /\ a.rel.extension = ".xml"
               /\ \E i \in 1..Len(ret'.reloads) :
                     ret'.reloads[i] = [name |-> a.rel.stem, path |-> [drive |-> "A:", rel |-> a.rel]]
         /\ reloader'.file_mtimes_ =
               [a \in DOMAIN reloader.file_mtimes_ |->
                   IF a \in Changed(reloader, disk) THEN disk[a.rel] ELSE reloader.file_mtimes_[a]]
         /\ Changed(reloader', disk') = {}]_vars

\* C24 witness: a polling thread's scan reloaded one of two tracked files;
\* the other is deleted and still tracked
C24_Witness ==
    /\ ret.op = "scan_and_reload" /\ ret.thread = "poll"
    /\ Len(ret.reloads) = 1
    /\ Cardinality(DOMAIN reloader.file_mtimes_) = 2
    /\ \E a, b \in DOMAIN reloader.file_mtimes_ :
          /\ disk[a.rel] = 0 /\ reloader.file_mtimes_[a] = 1
          /\ disk[b.rel] = 2 /\ reloader.file_mtimes_[b] = 2
          /\ ret.reloads[1].path.rel = b.rel

(***************************************************************************)
(* GeometryBudgetManager::calculate_budget                                 *)
(* (src/src/rendering/geometry_budget_manager.cpp)                         *)
(*                                                                         *)
(* A size_t value is a sequence of Limbs digits in base LimbBase, lowest   *)
(* digit first; a size_t of 32 (64) bits has 2 (4) significant digits, and *)
(* an operation on it drops what does not fit (arithmetic modulo 2^bits).  *)
(* The same operations on all Limbs digits compute without wrap-around.    *)
(***************************************************************************)
LimbBase == 65536
Limbs == 6
LimbBits == 16

MAX_BUDGET_BYTES == 256 * 1024 * 1024
BUDGET_PERCENT == 25

\* the digits of the number n < LimbBase^2
to_limbs(n) == [i \in 1..Limbs |-> IF i = 1 THEN n % LimbBase ELSE IF i = 2 THEN n \div LimbBase ELSE 0]

\* v reduced modulo 2^bits
wrap(v, bits) == [i \in 1..Limbs |-> IF i <= bits \div LimbBits THEN v[i] ELSE 0]

\* the carry into digit i of v * c, and the product (c < 2^15)
RECURSIVE mul_carry(_, _, _)
mul_carry(v, c, i) == IF i = 1 THEN 0 ELSE (v[i - 1] * c + mul_carry(v, c, i - 1)) \div LimbBase

limbs_mul(v, c) == [i \in 1..Limbs |-> (v[i] * c + mul_carry(v, c, i)) % LimbBase]

\* the remainder carried into digit i of v / d, and the quotient (d < 2^15)
RECURSIVE div_rem(_, _, _)
div_rem(v, d, i) == IF i = Limbs THEN 0 ELSE (div_rem(v, d, i + 1) * LimbBase + v[i + 1]) % d

limbs_div(v, d) == [i \in 1..Limbs |-> (div_rem(v, d, i) * LimbBase + v[i]) \div d]

\* a < b, compared from the highest digit down
RECURSIVE limbs_less_from(_, _, _)
limbs_less_from(a, b, i) ==
    IF i = 0 THEN FALSE
    ELSE IF a[i] # b[i] THEN a[i] < b[i]
    ELSE limbs_less_from(a, b, i - 1)

limbs_less(a, b) == limbs_less_from(a, b, Limbs)

limbs_min(a, b) == IF limbs_less(b, a) THEN b ELSE a

\* calculate_budget (lines 28-33) with a size_t of the given number of bits
calculate_budget(available_kb, bits) ==
    IF available_kb = to_limbs(0) THEN to_limbs(0)
    ELSE LET budget == wrap(limbs_div(wrap(limbs_mul(available_kb, 1024), bits),
                                      100 \div BUDGET_PERCENT), bits)
         IN  limbs_min(budget, to_limbs(MAX_BUDGET_BYTES))

\* the widths of size_t on the targets of the build (ILP32, LP64)
SizeBits == {32, 64}

\* digits of the sampled available_kb values: around the 256 MiB cap (2^20
\* kB = digit 16 in second place) and around 2^bits / 1024 (digit 64 in the
\* highest place)
LimbSamples == {0, 1, 15, 16, 63, 64, 65535}

\* the available_kb values of test_geometry_budget.cpp (lines 41-69)
TestAvailableKb ==
    {<<33328, 57, 0, 0, 0, 0>>, <<45056, 4, 0, 0, 0, 0>>, <<38912, 0, 0, 0, 0, 0>>,
     <<49152, 93, 0, 0, 0, 0>>, <<0, 0, 0, 0, 0, 0>>}

AvailableKbSamples(bits) ==
    TestAvailableKb \cup
    {v \in [1..Limbs -> LimbSamples] : \A i \in 1..Limbs : i > bits \div LimbBits => v[i] = 0}

\* the call to make: the build's size_t and the argument
InitBudget ==
    /\ EngineIdle
    /\ \E bits \in SizeBits :
          ret \in {[op |-> "none", bits |-> bits, available_kb |-> v] : v \in AvailableKbSamples(bits)}
    /\ fault = FALSE
    /\ history = <<>>
    /\ capabilities_ = <<>>
    /\ reloader = <<>>
    /\ disk = <<>>
    /\ heap = <<>>

CalculateBudget ==
    /\ ret.op = "none"
    /\ ret' = [op |-> "calculate_budget", bits |-> ret.bits, available_kb |-> ret.available_kb,
               budget |-> calculate_budget(ret.available_kb, ret.bits)]
    /\ UNCHANGED <<engineVars, fault, history, capabilities_, reloader, disk, heap>>

NextBudget == CalculateBudget

SpecBudget == InitBudget /\ [][NextBudget]_vars

(***************************************************************************)
(* Claims on the geometry budget                                           *)
(***************************************************************************)
\* min(available_kb * 1024 / 4, 256 MiB), computed without wrap-around
UnwrappedBudget(available_kb) ==
    limbs_min(limbs_div(limbs_mul(available_kb, 1024), 4), to_limbs(MAX_BUDGET_BYTES))

\* C25: for every available_kb, calculate_budget returns 0 for 0 and
\* otherwise min(available_kb * 1024 / 4, 256 MiB), the product not wrapped;
\* the budget never exceeds 256 MiB and does not decrease when available_kb
\* increases
C25_BudgetQuarterCapped ==
    ret.op = "calculate_budget" =>
        /\ ret.available_kb = to_limbs(0) => ret.budget = to_limbs(0)
        /\ ret.budget = UnwrappedBudget(ret.available_kb)
        /\ ~limbs_less(to_limbs(MAX_BUDGET_BYTES), ret.budget)
        /\ \A smaller \in TestAvailableKb :
              limbs_less(smaller, ret.available_kb) =>
                 ~limbs_less(ret.budget, calculate_budget(smaller, ret.bits))

(***************************************************************************)
(* The interpolation along a crossed edge (extract_surface, lines 449-468) *)
(* on one cube whose lower corners hold values next to the iso value       *)
(***************************************************************************)
\* corner values: far inside, one epsilon below the iso value 0, on it, and
\* outside
CornerSamples == {InsideValue, -1, 0, OutsideValue}

EdgeBounds == [min |-> <<0, 0, 0>>, max |-> <<20, 20, 20>>]

\* a 2 x 2 x 2 grid as allocated, then set() on the four voxels with z = 0
EdgeGrids ==
    {[DenseVoxelGrid(2, EdgeBounds) EXCEPT !.data = [i \in 0..3 |-> values[i + 1]]] :
        values \in [1..4 -> CornerSamples]}

InitEdge ==
    /\ grid \in EdgeGrids
    /\ sparse = NoSparse
    /\ mesh = NoMesh
    /\ opts = DefaultOptions
    /\ ret = [op |-> "none"]
    /\ fault = FALSE
    /\ nwrites = 0
    /\ stats_ = <<>>
    /\ history = <<>>
    /\ sorter = PrintSelectFileSorter
    /\ files = <<>>
    /\ capabilities_ = <<>>
    /\ reloader = <<>>
    /\ disk = <<>>
    /\ heap = <<>>

NextEdge == \E uninit \in UninitValues : ExtractSurface(0, FLT_MAX, uninit)

SpecEdge == InitEdge /\ [][NextEdge]_vars

\* the corner values of the grid edge vertex i of the mesh was made on
VertexV0(i) == get(grid, mesh.vertices[i].c0[1], mesh.vertices[i].c0[2], mesh.vertices[i].c0[3])
VertexV1(i) == get(grid, mesh.vertices[i].c1[1], mesh.vertices[i].c1[2], mesh.vertices[i].c1[3])

\* C26: for every crossed edge, whatever the corner values, the denominator
\* v1 - v0 + epsilon is not zero, t is a number in [0,1] and the vertex lies
\* on the closed segment between the two corners
C26_InterpolationWellDefined ==
    ret.op = "extract_surface" =>
        \A i \in 1..Len(mesh.vertices) :
            /\ (VertexV0(i) < ret.iso_value) # (VertexV1(i) < ret.iso_value)
            /\ VertexV1(i) - VertexV0(i) + 1 # 0
            /\ mesh.vertices[i].t.den > 0
            /\ mesh.vertices[i].t.num >= 0
            /\ mesh.vertices[i].t.num <= mesh.vertices[i].t.den

(***************************************************************************)
(* Specification SpecRaster: generate_sdf with the smallest radii validate *)
(* lets through, on a grid wider than a segment's influence box            *)
(***************************************************************************)
RasterRes == 6

\* voxel size 0.2 mm
RasterBounds ==
    [min |-> <<0, 0, 0>>,
     max |-> <<20 * (RasterRes - 1), 20 * (RasterRes - 1), 20 * (RasterRes - 1)>>]

RasterOptions == validate([DefaultOptions EXCEPT !.smoothing_radius = 0, !.segment_radius_mm = 0])

\* segments inside the grid, one beyond it, a filtered one and a travel move
RasterSegments ==
    {Seg(<<x, 50, 50>>, e, TRUE, <<>>) :
        x \in {44, 50, 56}, e \in {<<44, 50, 50>>, <<60, 50, 50>>, <<60, 70, 50>>}} \cup
    { Seg(<<160, 50, 50>>, <<160, 50, 50>>, TRUE, <<>>),
      Seg(<<44, 50, 50>>, <<60, 50, 50>>, TRUE, <<"S", "u", "p", "p", "o", "r", "t">>),
      Seg(<<44, 50, 50>>, <<60, 50, 50>>, FALSE, <<>>) }

RasterToolpaths == UNION {[1..n -> RasterSegments] : n \in 0..MaxSegs}

InitRaster ==
    /\ grid = DenseVoxelGrid(RasterRes, RasterBounds)
    /\ sparse = NoSparse
    /\ mesh = NoMesh
    /\ opts = RasterOptions
    /\ ret = [op |-> "none"]
    /\ fault = FALSE
    /\ nwrites = 0
    /\ stats_ = <<>>
    /\ history = <<>>
    /\ sorter = PrintSelectFileSorter
    /\ files = <<>>
    /\ capabilities_ = <<>>
    /\ reloader = <<>>
    /\ disk = <<>>
    /\ heap = <<>>

NextRaster == \E segments \in RasterToolpaths : GenerateSdf(segments)

SpecRaster == InitRaster /\ [][NextRaster]_vars

(***************************************************************************)
(* Claims on the rasterization of one segment                              *)
(***************************************************************************)
\* the grid after the j-th rasterized segment of the call (the grid before
\* the call for j = 0, the grid it left for the last one)
GridAfter(j) ==
    IF j = 0 THEN ret.before
    ELSE IF j = Len(ret.rasterized) THEN grid
    ELSE generate_sdf(ret.before, SubSeq(ret.segments, 1, ret.rasterized[j]),
                      opts.segment_radius_mm, opts.smoothing_radius).grid

AllVoxels == (0..(grid.resolution - 1)) \X (0..(grid.resolution - 1)) \X (0..(grid.resolution - 1))

Value(g, c) == get(g, c[1], c[2], c[3])

\* the distance, on axis a and in units of 0.0001 mm, of the voxel c from the
\* segment's axis-aligned bounding box
AxisDistance(c, segment, a) ==
    LET p == voxel_to_world(grid, c)[a]
        lo == std_min(segment.start[a], segment.end[a])
        hi == std_max(segment.start[a], segment.end[a])
    IN 100 * (IF p < lo THEN lo - p ELSE IF p > hi THEN p - hi ELSE 0)

Influence == opts.segment_radius_mm + opts.smoothing_radius + 100 * grid.voxel_size

\* the j-th rasterized segment changed only voxels within the distance bound,
\* on every axis, of its bounding box
ChangesWithin(j, bound) ==
    \A g0 \in {GridAfter(j - 1)} : \A g1 \in {GridAfter(j)} :
        \A c \in AllVoxels :
            Value(g1, c) # Value(g0, c) =>
                \A a \in 1..3 : AxisDistance(c, ret.segments[ret.rasterized[j]], a) <= bound

\* C27 as claimed: a rasterized segment changes only voxels that lie, on
\* every axis, within segment_radius + smoothing_radius + voxel_size of the
\* segment's bounding box
C27_ChangesWithinInfluence ==
    ret.op = "generate_sdf" =>
        \A j \in 1..Len(ret.rasterized) : ChangesWithin(j, Influence)

\* C27 amended: a rasterized segment changes only voxels that lie, on every
\* axis, within segment_radius + smoothing_radius + 1.5 voxel_size of the
\* segment's bounding box (the box is rounded to the nearest voxel); every
\* other voxel keeps its value
C27_ChangesWithinRoundedInfluence ==
    ret.op = "generate_sdf" =>
        \A j \in 1..Len(ret.rasterized) : ChangesWithin(j, Influence + 50 * grid.voxel_size)

\* C27 witness: the second segment changed a voxel farther than the claimed
\* distance from its box, and left a voxel that the first one had written
C27_Witness ==
    /\ ret.op = "generate_sdf"
    /\ Len(ret.rasterized) = 2
    /\ \E g1 \in {GridAfter(1)} :
          /\ \E c \in AllVoxels :
                /\ Value(grid, c) # Value(g1, c)
                /\ \E a \in 1..3 : AxisDistance(c, ret.segments[ret.rasterized[2]], a) > Influence
          /\ \E c \in AllVoxels :
                /\ Value(g1, c) # FLT_MAX
                /\ Value(grid, c) = Value(g1, c)
                /\ \E a \in 1..3 :
                      AxisDistance(c, ret.segments[ret.rasterized[2]], a)
                          > Influence + 50 * grid.voxel_size

\* the voxels of the influence box of the j-th rasterized segment
BoxOf(j) ==
    influence_box(grid, ret.segments[ret.rasterized[j]], opts.segment_radius_mm,
                  opts.smoothing_radius)

\* the capsule distance of the voxel c to the j-th rasterized segment
DistanceTo(j, c) ==
    capsule_sdf(voxel_to_world(grid, c), ret.segments[ret.rasterized[j]].start,
                ret.segments[ret.rasterized[j]].end, opts.segment_radius_mm)

\* C30: during generate_sdf no voxel's value increases; afterwards a voxel's
\* value is <= the capsule distance of every rasterized segment whose
\* influence box holds the voxel, and a voxel in no such box holds FLT_MAX
C30_ValuesOnlyDecrease ==
    ret.op = "generate_sdf" =>
        /\ \A j \in 1..Len(ret.rasterized) :
              \A g0 \in {GridAfter(j - 1)} : \A g1 \in {GridAfter(j)} :
                  \A c \in AllVoxels : Value(g1, c) <= Value(g0, c)
        /\ \A j \in 1..Len(ret.rasterized) :
              \A c \in BoxOf(j) : Value(grid, c) <= DistanceTo(j, c)
        /\ \A c \in AllVoxels :
              (\A j \in 1..Len(ret.rasterized) : c \notin BoxOf(j)) => Value(grid, c) = FLT_MAX

\* C30 witness: two segments were rasterized, a voxel in both boxes holds
\* less than either distance, and a voxel in neither box holds FLT_MAX
C30_Witness ==
    /\ ret.op = "generate_sdf"
    /\ Len(ret.rasterized) = 2
    /\ \E g1 \in {GridAfter(1)} :
          \E c \in BoxOf(1) \cap BoxOf(2) :
             /\ Value(grid, c) < Value(g1, c)
             /\ Value(grid, c) < DistanceTo(2, c)
    /\ \E c \in AllVoxels : c \notin BoxOf(1) \cup BoxOf(2) /\ Value(grid, c) = FLT_MAX

(***************************************************************************)
(* Claims on the comparator of the sorter                                  *)
(***************************************************************************)
\* C29: the comparator apply_sort hands to std::sort is a strict weak
\* ordering for every column and both directions: no entry of the list comes
\* before itself, and no two entries come before each other
C29_ComparatorStrictWeak ==
    ret.op = "apply_sort" =>
        \A i, j \in 1..Len(ret.input) :
            /\ ~compare(ret.input[i], ret.input[i], sorter.current_column_,
                        sorter.current_direction_)
            /\ ~(/\ compare(ret.input[i], ret.input[j], sorter.current_column_,
                            sorter.current_direction_)
                 /\ compare(ret.input[j], ret.input[i], sorter.current_column_,
                            sorter.current_direction_))

(***************************************************************************)
(* SparseVoxelGrid: ownership of the compressed tree                       *)
(* (src/experimental/src/gcode_sparse_grid.cpp, lines 27-105, 145-183)     *)
(*                                                                         *)
(* heap.storage is the sequence of the NanoVDBGridStorage objects ever     *)
(* allocated with new: the tree, the size of its handle, and the number of *)
(* times delete was applied to it; a pointer is a position in it, nullptr  *)
(* is 0.  heap.objects holds the SparseVoxelGrid objects of the program,   *)
(* each unborn, alive or destroyed.                                        *)
(***************************************************************************)
\* number of SparseVoxelGrid objects, and of storages allocated
MaxGrids == 3
MaxStorages == 3

NoGrid ==
    [state |-> "unborn", resolution_ |-> 0, bounds_ |-> [min |-> <<0, 0, 0>>, max |-> <<0, 0, 0>>],
     voxel_size_ |-> 0, nanovdb_grid_ |-> 0, dense_equivalent_ |-> 0]

\* delete static_cast<NanoVDBGridStorage*>(p)
delete_storage(h, p) == [h EXCEPT !.storage[p].deleted = @ + 1]

\* the converting constructor (lines 27-75) for object id: the storage is
\* allocated and, should the handle hold no float grid, deleted again before
\* the constructor throws
construct(h, id, dense_grid, handle_size, has_grid) ==
    LET p == Len(h.storage) + 1
        built == SparseVoxelGrid(dense_grid)
        h1 == [h EXCEPT !.storage = Append(@, [grid |-> built.nanovdb_grid,
                                                   handle_size |-> handle_size, deleted |-> 0])]
    IN IF ~has_grid THEN delete_storage(h1, p)
       ELSE [h1 EXCEPT !.objects[id] =
                [state |-> "alive", resolution_ |-> built.resolution, bounds_ |-> built.bounds,
                 voxel_size_ |-> built.voxel_size, nanovdb_grid_ |-> p,
                 dense_equivalent_ |-> built.dense_equivalent]]

\* the destructor (lines 77-81)
destroy(h, id) ==
    LET h1 == IF h.objects[id].nanovdb_grid_ # 0
              THEN delete_storage(h, h.objects[id].nanovdb_grid_) ELSE h
    IN [h1 EXCEPT !.objects[id].state = "destroyed"]

\* a move constructor that leaves the pointer in the source
move_construct_keeps_other(h, id, other) ==
    [h EXCEPT !.objects[id] = h.objects[other]]

\* the move constructor (lines 83-90)
move_construct(h, id, other) ==
    [h EXCEPT !.objects[id] = h.objects[other],
              !.objects[other].nanovdb_grid_ = 0]

\* the move assignment (lines 92-105)
move_assign(h, id, other) ==
    IF id = other THEN h
    ELSE LET h1 == IF h.objects[id].nanovdb_grid_ # 0
                   THEN delete_storage(h, h.objects[id].nanovdb_grid_) ELSE h
         IN [h1 EXCEPT !.objects[id] = h.objects[other],
                       !.objects[other].nanovdb_grid_ = 0]

\* the object as the read operations see it: the storage behind its pointer
grid_view(h, id) ==
    LET o == h.objects[id]
    IN [constructed |-> TRUE, resolution |-> o.resolution_, bounds |-> o.bounds_,
        voxel_size |-> o.voxel_size_,
        nanovdb_grid |-> IF o.nanovdb_grid_ = 0 THEN NullStorage
                         ELSE h.storage[o.nanovdb_grid_].grid,
        dense_equivalent |-> o.dense_equivalent_]

\* SparseVoxelGrid::memory_usage (lines 169-175)
sparse_memory_usage(h, id) ==
    IF h.objects[id].nanovdb_grid_ = 0 \/ ~h.storage[h.objects[id].nanovdb_grid_].grid.live THEN 0
    ELSE h.storage[h.objects[id].nanovdb_grid_].handle_size

\* SparseVoxelGrid::compression_ratio (lines 177-183), as a fraction
compression_ratio(h, id) ==
    LET sparse_size == sparse_memory_usage(h, id)
    IN IF sparse_size = 0 THEN [num |-> 0, den |-> 1]
       ELSE [num |-> h.objects[id].dense_equivalent_, den |-> sparse_size]

\* the dense grid the grids are converted from: one voxel inside the solid
MoveDense == set(DenseVoxelGrid(GridRes, TestBounds), 0, 0, 0, -1000)

\* sizes a NanoVDB handle may report for it
HandleSizes == {64, 4096}

InitMove ==
    /\ EngineIdle
    /\ ret = [op |-> "none"]
    /\ fault = FALSE
    /\ history = <<>>
    /\ capabilities_ = <<>>
    /\ reloader = <<>>
    /\ disk = <<>>
    /\ heap = [objects |-> [id \in 1..MaxGrids |-> NoGrid], storage |-> <<>>]

Alive(id) == heap.objects[id].state = "alive"

Construct(id, handle_size, has_grid) ==
    /\ heap.objects[id].state = "unborn"
    /\ Len(heap.storage) < MaxStorages
    /\ heap' = construct(heap, id, MoveDense, handle_size, has_grid)
    /\ ret' = [op |-> "construct", id |-> id, threw |-> ~has_grid]
    /\ UNCHANGED <<engineVars, fault, history, capabilities_, reloader, disk>>

MoveConstruct(id, other) ==
    /\ heap.objects[id].state = "unborn"
    /\ Alive(other)
    /\ heap' = move_construct(heap, id, other)
    /\ ret' = [op |-> "move_construct", id |-> id, other |-> other]
    /\ UNCHANGED <<engineVars, fault, history, capabilities_, reloader, disk>>

MoveAssign(id, other) ==
    /\ Alive(id)
    /\ Alive(other)
    /\ heap' = move_assign(heap, id, other)
    /\ ret' = [op |-> "move_assign", id |-> id, other |-> other]
    /\ UNCHANGED <<engineVars, fault, history, capabilities_, reloader, disk>>

Destroy(id) ==
    /\ Alive(id)
    /\ heap' = destroy(heap, id)
    /\ ret' = [op |-> "destroy", id |-> id]
    /\ UNCHANGED <<engineVars, fault, history, capabilities_, reloader, disk>>

\* get, sample, memory_usage and compression_ratio of a live object
SparseRead(id, c) ==
    /\ Alive(id)
    /\ ret' = [op |-> "read", id |-> id, at |-> c,
               get |-> sparse_get(grid_view(heap, id), c[1], c[2], c[3]),
               sample |-> sparse_sample(grid_view(heap, id), voxel_to_world(MoveDense, c)),
               memory_usage |-> sparse_memory_usage(heap, id),
               compression_ratio |-> compression_ratio(heap, id)]
    /\ UNCHANGED <<engineVars, fault, history, capabilities_, reloader, disk, heap>>

NextMove ==
    \/ \E id \in 1..MaxGrids, handle_size \in HandleSizes, has_grid \in BOOLEAN :
          Construct(id, handle_size, has_grid)
    \/ \E id, other \in 1..MaxGrids : MoveConstruct(id, other)
    \/ \E id, other \in 1..MaxGrids : MoveAssign(id, other)
    \/ \E id \in 1..MaxGrids : Destroy(id)
    \/ \E id \in 1..MaxGrids : SparseRead(id, <<0, 0, 0>>)

SpecMove == InitMove /\ [][NextMove]_vars

(***************************************************************************)
(* Claims on the ownership of the tree                                     *)
(***************************************************************************)
Owners(p) == {id \in 1..MaxGrids : Alive(id) /\ heap.objects[id].nanovdb_grid_ = p}

\* C28: every tree is owned by exactly one live grid until it is freed, is
\* freed at most once and then owned by none, so once every grid is destroyed
\* every tree has been freed exactly once; a move leaves the source owning
\* nothing, a self-assignment changes nothing, and a grid that owns nothing
\* answers get and sample with the background value and memory_usage and
\* compression_ratio with 0
C28_TreeOwnedOnce ==
    /\ [](\A p \in 1..Len(heap.storage) :
             /\ heap.storage[p].deleted <= 1
             /\ Cardinality(Owners(p)) = 1 - heap.storage[p].deleted)
    /\ [][(ret'.op \in {"move_construct", "move_assign"} /\ heap' # heap) =>
             /\ heap'.objects[ret'.other].nanovdb_grid_ = 0
             /\ heap'.objects[ret'.id].nanovdb_grid_ = heap.objects[ret'.other].nanovdb_grid_]_vars
    /\ [][(ret'.op = "move_assign" /\ ret'.id = ret'.other) => heap' = heap]_vars
    /\ [](ret.op = "read" /\ heap.objects[ret.id].nanovdb_grid_ = 0 =>
             /\ ret.get = FLT_MAX
             /\ ret.sample.num = FLT_MAX /\ ret.sample.den = 1
             /\ ret.memory_usage = 0
             /\ ret.compression_ratio.num = 0)

\* C28 witness: a grid that was moved from is read; the tree it had built
\* lives in another grid, a second tree was freed by a move assignment
C28_Witness ==
    /\ ret.op = "read"
    /\ heap.objects[ret.id].nanovdb_grid_ = 0
    /\ heap.objects[ret.id].dense_equivalent_ > 0
    /\ \E p, q \in 1..Len(heap.storage) :
          /\ heap.storage[p].deleted = 0 /\ Owners(p) # {}
          /\ heap.storage[q].deleted = 1
          /\ \E id \in 1..MaxGrids : heap.objects[id].state = "destroyed"

====
